---- MODULE Spec2Model ----
(***************************************************************************)
(* A model of the weekend-tracer-rs path tracer: the hittable geometry,    *)
(* the bounding volume hierarchy (BVH::new, BVH::hit), the linear scan     *)
(* (World::hit), the recursive estimator ray_color and the parallel pixel  *)
(* loop of render.                                                         *)
(*                                                                         *)
(* Numbers.  Geometry is modelled on exactly representable f32 values:     *)
(* every coordinate is an integer number of units of 0.0001 and every ray  *)
(* direction component is 1 or -1, so that each quotient the code forms    *)
(* ((k - origin) / direction, 1.0 / direction) is exact and the integer     *)
(* arithmetic below is the f32 arithmetic of the code.  Colours and screen  *)
(* coordinates are values of a miniature f32 that rounds, overflows to an  *)
(* infinity and has a NaN (see the f32 section).                           *)
(***************************************************************************)
EXTENDS Integers, Sequences, FiniteSets, TLC

VARIABLES
    objects,    \* the Vec<Box<dyn Hittable>> handed to BVH::new / World::new
    bvh,        \* what BVH::new(objects, t0, t1) produced: NotBuilt, Panic or a BVH
    query,      \* the last (ray, t_min, t_max) sent to BVH::hit and World::hit
    bvh_rec,    \* Option<HitRecord> returned by BVH::hit for the query
    world_rec,  \* Option<HitRecord> returned by World::hit for the query
    params,     \* the arguments of render
    workers,    \* per worker thread: Idle, or the closure's position, colour
                \* accumulator and samples still to take
    rng,        \* per worker thread: the draws taken from its thread_rng
    out,        \* per screen position: Pending or the pixel of the closure
    log,        \* per screen position: the samples taken for it, in order, each
                \* with the generator that supplied its draws
    image,      \* the Vec<Pixel> render returns, NotReturned before
    call        \* one call of a function of the library with its arguments
                \* and what it returned, NoCall before

gvars == <<objects, bvh, query, bvh_rec, world_rec>>

rvars == <<params, workers, rng, out, log, image>>

vars == <<objects, bvh, query, bvh_rec, world_rec,
          params, workers, rng, out, log, image, call>>

-----------------------------------------------------------------------------
(* Bounds of the model.                                                    *)

\* longest object list handed to BVH::new
MaxObjects == 4

\* largest width and height of the image
MaxWidth == 2

MaxHeight == 2

\* most samples per pixel
MaxSamples == 2

\* largest max_reflection_depth
MaxDepth == 2

\* most samples of one render (width * height * samples_per_pixel)
MaxWork == 4

\* worker threads of the parallel iterator
NumWorkers == 2

\* largest coordinate of a corner of the boxes handed to AABB::hit
MaxCoord == 2

-----------------------------------------------------------------------------
(* f32 constants the geometry uses.                                        *)

\* f32::INFINITY (t_max of ray_color) and f32::MAX / f32::MIN, the widest
\* range ConstantMedium::hit asks its boundary for: larger in magnitude than
\* every ray parameter the model can form.
INFINITY == 1000000
F32_MAX == 999999
F32_MIN == -999999

\* The 0.0001 padding of a rectangle's bounding box: one unit of the model.
RectPad == 1

\* The 0.0001 that ConstantMedium::hit adds to the entry parameter.
MediumStep == 1

None == [kind |-> "None"]

-----------------------------------------------------------------------------
(* Vec3 and Ray (vec3.rs, ray.rs).                                          *)

Vec3(x, y, z) == <<x, y, z>>

VAdd(a, b) == <<a[1] + b[1], a[2] + b[2], a[3] + b[3]>>

VSub(a, b) == <<a[1] - b[1], a[2] - b[2], a[3] - b[3]>>

VNeg(a) == <<-a[1], -a[2], -a[3]>>

VScale(t, a) == <<t * a[1], t * a[2], t * a[3]>>

dot(a, b) == a[1] * b[1] + a[2] * b[2] + a[3] * b[3]

length_squared(a) == dot(a, a)

Ray(origin, direction) == [origin |-> origin, direction |-> direction]

\* Ray::at
at(ray, t) == VAdd(ray.origin, VScale(t, ray.direction))

\* a / d for a direction component d (1 or -1): exact
Quot(a, d) == IF d < 0 THEN (-a) \div (-d) ELSE a \div d

Min(a, b) == IF a < b THEN a ELSE b

Max(a, b) == IF a > b THEN a ELSE b

\* f32::sqrt on the non-negative values of the model, rounded down
\* the integer square root of n, by bisection: lo * lo <= n < hi * hi
RECURSIVE ISqrtIn(_, _, _)
ISqrtIn(n, lo, hi) ==
    IF hi - lo <= 1 THEN lo
    ELSE LET mid == (lo + hi) \div 2
         IN  IF mid * mid <= n THEN ISqrtIn(n, mid, hi) ELSE ISqrtIn(n, lo, mid)

sqrt(n) == ISqrtIn(n, 0, 2 ^ 15)

-----------------------------------------------------------------------------
(* AABB (aabb.rs).                                                          *)

AABB(min, max) == [min |-> min, max |-> max]

surrounding_box(box0, box1) ==
    AABB(<<Min(box0.min[1], box1.min[1]),
           Min(box0.min[2], box1.min[2]),
           Min(box0.min[3], box1.min[3])>>,
         <<Max(box0.max[1], box1.max[1]),
           Max(box0.max[2], box1.max[2]),
           Max(box0.max[3], box1.max[3])>>)

\* The slab loop of AABB::hit from component i on (i = 0, 1, 2), with the
\* running interval (tmin, tmax).
RECURSIVE SlabLoop(_, _, _, _, _)

\* the slab loop without the exchange of t0 and t1 for a negative inv_d
SlabLoop_no_swap(box, ray, i, tmin, tmax) ==
    IF i = 3 THEN TRUE
    ELSE LET Narrowed(nmin, nmax) ==
                 IF nmax <= nmin THEN FALSE
                 ELSE SlabLoop(box, ray, i + 1, nmin, nmax)
             Slab(t0, t1) ==
                 Narrowed(IF t0 > tmin THEN t0 ELSE tmin,
                          IF t1 < tmax THEN t1 ELSE tmax)
             Inverse(inv_d) ==
                 Slab((box.min[i + 1] - ray.origin[i + 1]) * inv_d,
                      (box.max[i + 1] - ray.origin[i + 1]) * inv_d)
         IN  Inverse(Quot(1, ray.direction[i + 1]))

SlabLoop(box, ray, i, tmin, tmax) ==
    IF i = 3 THEN TRUE
    ELSE LET Narrowed(nmin, nmax) ==
                 IF nmax <= nmin THEN FALSE
                 ELSE SlabLoop(box, ray, i + 1, nmin, nmax)
             Slab(t0, t1) ==
                 Narrowed(IF t0 > tmin THEN t0 ELSE tmin,
                          IF t1 < tmax THEN t1 ELSE tmax)
             Swapped(inv_d, a0, a1) ==
                 Slab(IF inv_d < 0 THEN a1 ELSE a0, IF inv_d < 0 THEN a0 ELSE a1)
             Inverse(inv_d) ==
                 Swapped(inv_d,
                         (box.min[i + 1] - ray.origin[i + 1]) * inv_d,
                         (box.max[i + 1] - ray.origin[i + 1]) * inv_d)
         IN  Inverse(Quot(1, ray.direction[i + 1]))

\* AABB::hit with the loop over the components started at the second one
AABB_hit_from_y(box, ray, tmin, tmax) == SlabLoop(box, ray, 1, tmin, tmax)

AABB_hit(box, ray, tmin, tmax) == SlabLoop(box, ray, 0, tmin, tmax)

axis_range(box, axis) ==
    Max(box.min[axis + 1], box.max[axis + 1])
        - Min(box.min[axis + 1], box.max[axis + 1])

\* ranges sorted from greatest to least; the sort of the three pairs keeps
\* the lower axis first among equal ranges.
longest_axis(box) ==
    LET r(a) == axis_range(box, a)
    IN  IF r(0) >= r(1) /\ r(0) >= r(2) THEN 0
        ELSE IF r(1) >= r(2) THEN 1
        ELSE 2

\* f32::MAX for areas, which carry the square of the unit of coordinates
F32_MAX_AREA == 1000 * F32_MAX

\* AABB::area; an area beyond the largest finite f32 is the infinity
area(box) ==
    LET x == axis_range(box, 0)
        y == axis_range(box, 1)
        z == axis_range(box, 2)
        Rounded(half) ==
            IF half > F32_MAX_AREA \div 2 THEN F32_MAX_AREA + 1
            ELSE 2 * half
    IN  Rounded(x * y + x * z + y * z)

-----------------------------------------------------------------------------
(* Hittables (hittable/*.rs).  A hittable is a record tagged with its kind; *)
(* a material is named by an integer (the Arc<Material> it refers to).      *)

\* HitRecord::new: the normal is turned against the incident ray.
HitRecord_new(ray, t, hit_point, outward_normal, material) ==
    LET front_face == dot(ray.direction, outward_normal) < 0
    IN  [kind       |-> "Hit",
         hit_point  |-> hit_point,
         normal     |-> IF front_face THEN outward_normal ELSE VNeg(outward_normal),
         t          |-> t,
         front_face |-> front_face,
         material   |-> material]

Sphere_new(center, radius, material) ==
    [kind |-> "Sphere", center |-> center, radius |-> radius, material |-> material]

XYRect_new(x0, x1, y0, y1, k, material) ==
    [kind |-> "XYRect", x0 |-> x0, x1 |-> x1, y0 |-> y0, y1 |-> y1, k |-> k,
     material |-> material]

XZRect_new(x0, x1, z0, z1, k, material) ==
    [kind |-> "XZRect", x0 |-> x0, x1 |-> x1, z0 |-> z0, z1 |-> z1, k |-> k,
     material |-> material]

YZRect_new(y0, y1, z0, z1, k, material) ==
    [kind |-> "YZRect", y0 |-> y0, y1 |-> y1, z0 |-> z0, z1 |-> z1, k |-> k,
     material |-> material]

\* Hittable::flip_face
FlipFace_new(p) == [kind |-> "FlipFace", obj |-> p]

Translate_new(obj, displacement) ==
    [kind |-> "Translate", obj |-> obj, offset |-> displacement]

\* RotateY::new with the sine of every angle taken as 0
RotateY_new_without_sine(obj, angle) ==
    [kind      |-> "RotateY",
     obj       |-> obj,
     sin_theta |-> 0,
     cos_theta |-> CASE angle = 0 -> 1 [] angle = 90 -> 0
                     [] angle = 180 -> -1 [] angle = 270 -> 0]

\* RotateY::new(obj, angle) for a whole number of quarter turns: sin_theta
\* and cos_theta are the sine and cosine of the angle, each -1, 0 or 1 (the
\* f32 values of the code are within 1e-7 of them).
RotateY_new(obj, angle) ==
    [kind      |-> "RotateY",
     obj       |-> obj,
     sin_theta |-> CASE angle = 0 -> 0 [] angle = 90 -> 1
                     [] angle = 180 -> 0 [] angle = 270 -> -1,
     cos_theta |-> CASE angle = 0 -> 1 [] angle = 90 -> 0
                     [] angle = 180 -> -1 [] angle = 270 -> 0]

\* Rotate::new(obj, axis, angle): RotateX::new, RotateY::new and
\* RotateZ::new compute the same two fields
Rotate_new(obj, axis, angle) ==
    [RotateY_new(obj, angle) EXCEPT
        !.kind = CASE axis = "X" -> "RotateX" [] axis = "Y" -> "RotateY"
                   [] axis = "Z" -> "RotateZ"]

World_new(objs) == [kind |-> "World", objects |-> objs]

\* Block::new: six rectangles, three of them flipped
Block_new(p0, p1, material) ==
    [kind      |-> "Block",
     block_min |-> p0,
     block_max |-> p1,
     sides     |-> World_new(<<
         XYRect_new(p0[1], p1[1], p0[2], p1[2], p1[3], material),
         FlipFace_new(XYRect_new(p0[1], p1[1], p0[2], p1[2], p0[3], material)),
         XZRect_new(p0[1], p1[1], p0[3], p1[3], p1[2], material),
         FlipFace_new(XZRect_new(p0[1], p1[1], p0[3], p1[3], p0[2], material)),
         YZRect_new(p0[2], p1[2], p0[3], p1[3], p1[1], material),
         FlipFace_new(YZRect_new(p0[2], p1[2], p0[3], p1[3], p0[1], material))>>)]

\* ConstantMedium::new; the phase function is the isotropic material
ConstantMedium_new(boundary, phase_function) ==
    [kind |-> "ConstantMedium", boundary |-> boundary,
     phase_function |-> phase_function]

\* a / d (d > 0) to the nearest integer
Nearest(a, d) == (2 * a + d) \div (2 * d)

Sphere_hit(self, ray, t_min, t_max) ==
    LET oc           == VSub(ray.origin, self.center)
        a            == length_squared(ray.direction)
        half_b       == dot(oc, ray.direction)
        c            == length_squared(oc) - self.radius * self.radius
        discriminant == half_b * half_b - a * c
        Record(t, hit_point) ==
            LET d == VSub(hit_point, self.center)
            IN  HitRecord_new(ray, t, hit_point,
                    <<Nearest(d[1], self.radius), Nearest(d[2], self.radius),
                      Nearest(d[3], self.radius)>>,
                    self.material)
        Solutions(root) ==
            LET solution_1 == (-half_b - root) \div a
                solution_2 == (-half_b + root) \div a
            IN  IF solution_1 < t_max /\ solution_1 > t_min
                THEN Record(solution_1, at(ray, solution_1))
                ELSE IF solution_2 < t_max /\ solution_2 > t_min
                THEN Record(solution_2, at(ray, solution_2))
                ELSE None
    IN  IF discriminant > 0 THEN Solutions(sqrt(discriminant)) ELSE None

XYRect_hit(self, ray, t_min, t_max) ==
    LET t == Quot(self.k - ray.origin[3], ray.direction[3])
    IN  IF t < t_min \/ t > t_max THEN None
        ELSE LET x == ray.origin[1] + t * ray.direction[1]
                 y == ray.origin[2] + t * ray.direction[2]
             IN  IF x < self.x0 \/ x > self.x1 \/ y < self.y0 \/ y > self.y1
                 THEN None
                 ELSE HitRecord_new(ray, t, at(ray, t), <<0, 0, 1>>, self.material)

XZRect_hit(self, ray, t_min, t_max) ==
    LET t == Quot(self.k - ray.origin[2], ray.direction[2])
    IN  IF t < t_min \/ t > t_max THEN None
        ELSE LET x == ray.origin[1] + t * ray.direction[1]
                 z == ray.origin[3] + t * ray.direction[3]
             IN  IF x < self.x0 \/ x > self.x1 \/ z < self.z0 \/ z > self.z1
                 THEN None
                 ELSE HitRecord_new(ray, t, at(ray, t), <<0, 1, 0>>, self.material)

YZRect_hit(self, ray, t_min, t_max) ==
    LET t == Quot(self.k - ray.origin[1], ray.direction[1])
    IN  IF t < t_min \/ t > t_max THEN None
        ELSE LET y == ray.origin[2] + t * ray.direction[2]
                 z == ray.origin[3] + t * ray.direction[3]
             IN  IF y < self.y0 \/ y > self.y1 \/ z < self.z0 \/ z > self.z1
                 THEN None
                 ELSE HitRecord_new(ray, t, at(ray, t), <<1, 0, 0>>, self.material)

RECURSIVE bounding_box(_)
RECURSIVE World_bounding_box_from(_, _, _)

\* the loop of World::bounding_box passing over the members without a box
World_bounding_box_from_boxed(objs, i, output_box) ==
    IF i > Len(objs) THEN output_box
    ELSE LET Union(temp_box) ==
                 World_bounding_box_from(objs, i + 1,
                     IF temp_box = None THEN output_box
                     ELSE IF output_box = None THEN temp_box
                     ELSE surrounding_box(output_box, temp_box))
         IN  Union(bounding_box(objs[i]))

\* the loop of World::bounding_box from member i on, output_box the union so far
World_bounding_box_from(objs, i, output_box) ==
    IF i > Len(objs) THEN output_box
    ELSE LET Union(temp_box) ==
                 IF temp_box = None THEN None
                 ELSE World_bounding_box_from(objs, i + 1,
                          IF i = 1 THEN temp_box
                          ELSE surrounding_box(output_box, temp_box))
         IN  Union(bounding_box(objs[i]))

\* Hittable::bounding_box of every kind: an AABB, or None
bounding_box(self) ==
    CASE self.kind = "Sphere" ->
            AABB(VSub(self.center, <<self.radius, self.radius, self.radius>>),
                 VAdd(self.center, <<self.radius, self.radius, self.radius>>))
      [] self.kind = "XYRect" ->
            AABB(<<self.x0, self.y0, self.k - RectPad>>,
                 <<self.x1, self.y1, self.k + RectPad>>)
      [] self.kind = "XZRect" ->
            AABB(<<self.x0, self.k - RectPad, self.z0>>,
                 <<self.x1, self.k + RectPad, self.z1>>)
      [] self.kind = "YZRect" ->
            AABB(<<self.k - RectPad, self.y0, self.z0>>,
                 <<self.k + RectPad, self.y1, self.z1>>)
      [] self.kind = "Block" -> AABB(self.block_min, self.block_max)
      [] self.kind = "FlipFace" -> bounding_box(self.obj)
      [] self.kind = "Translate" ->
            LET Moved(bb) ==
                    IF bb = None THEN None
                    ELSE AABB(VAdd(bb.min, self.offset), VAdd(bb.max, self.offset))
            IN  Moved(bounding_box(self.obj))
      [] self.kind = "RotateX" ->
            LET Turned(bbox) ==
                    IF bbox = None THEN None
                    ELSE LET new_y(y, z) == y * self.cos_theta - z * self.sin_theta
                             new_z(y, z) == y * self.sin_theta + z * self.cos_theta
                             ys == { new_y(y, z) : y \in {bbox.min[2], bbox.max[2]},
                                                  z \in {bbox.min[3], bbox.max[3]} }
                             zs == { new_z(y, z) : y \in {bbox.min[2], bbox.max[2]},
                                                  z \in {bbox.min[3], bbox.max[3]} }
                             least(S) == CHOOSE a \in S : \A b \in S : a <= b
                             greatest(S) == CHOOSE a \in S : \A b \in S : a >= b
                         IN  AABB(<<bbox.min[1], least(ys), least(zs)>>,
                                  <<bbox.max[1], greatest(ys), greatest(zs)>>)
            IN  Turned(bounding_box(self.obj))
      [] self.kind = "RotateZ" ->
            LET Turned(bbox) ==
                    IF bbox = None THEN None
                    ELSE LET new_x(x, y) == x * self.cos_theta - y * self.sin_theta
                             new_y(x, y) == x * self.sin_theta + y * self.cos_theta
                             xs == { new_x(x, y) : x \in {bbox.min[1], bbox.max[1]},
                                                  y \in {bbox.min[2], bbox.max[2]} }
                             ys == { new_y(x, y) : x \in {bbox.min[1], bbox.max[1]},
                                                  y \in {bbox.min[2], bbox.max[2]} }
                             least(S) == CHOOSE a \in S : \A b \in S : a <= b
                             greatest(S) == CHOOSE a \in S : \A b \in S : a >= b
                         IN  AABB(<<least(xs), least(ys), bbox.min[3]>>,
                                  <<greatest(xs), greatest(ys), bbox.max[3]>>)
            IN  Turned(bounding_box(self.obj))
      [] self.kind = "RotateY" ->
            LET Turned(bbox) ==
                    IF bbox = None THEN None
                    ELSE LET new_x(x, z) == x * self.cos_theta + z * self.sin_theta
                             new_z(x, z) == -x * self.sin_theta + z * self.cos_theta
                             xs == { new_x(x, z) : x \in {bbox.min[1], bbox.max[1]},
                                                  z \in {bbox.min[3], bbox.max[3]} }
                             zs == { new_z(x, z) : x \in {bbox.min[1], bbox.max[1]},
                                                  z \in {bbox.min[3], bbox.max[3]} }
                             least(S) == CHOOSE a \in S : \A b \in S : a <= b
                             greatest(S) == CHOOSE a \in S : \A b \in S : a >= b
                         IN  AABB(<<least(xs), bbox.min[2], least(zs)>>,
                                  <<greatest(xs), bbox.max[2], greatest(zs)>>)
            IN  Turned(bounding_box(self.obj))
      [] self.kind = "ConstantMedium" -> bounding_box(self.boundary)
      [] self.kind = "World" ->
            IF self.objects = <<>> THEN None
            ELSE World_bounding_box_from(self.objects, 1, None)
      [] self.kind = "BVH" -> self.bbox

RECURSIVE hit(_, _, _, _, _)
RECURSIVE World_hit_from(_, _, _, _, _, _, _)
RECURSIVE BVH_hit(_, _, _, _, _)

\* The loop of World::hit with every member tested against the whole range
World_hit_from_whole_range(objs, i, ray, t_min, closest_so_far, rec, rnd) ==
    IF i > Len(objs) THEN rec
    ELSE LET Closest(obj_hit_rec) ==
                 World_hit_from(objs, i + 1, ray, t_min, closest_so_far,
                                IF obj_hit_rec # None THEN obj_hit_rec ELSE rec,
                                rnd)
         IN  Closest(hit(objs[i], ray, t_min, closest_so_far, rnd))

\* The loop of World::hit from member i on: closest_so_far narrows the range
\* of every later member, rec is the closest hit found so far.
World_hit_from(objs, i, ray, t_min, closest_so_far, rec, rnd) ==
    IF i > Len(objs) THEN rec
    ELSE LET Closest(obj_hit_rec) ==
                 IF obj_hit_rec # None
                 THEN World_hit_from(objs, i + 1, ray, t_min, obj_hit_rec.t,
                                     obj_hit_rec, rnd)
                 ELSE World_hit_from(objs, i + 1, ray, t_min, closest_so_far, rec,
                                     rnd)
         IN  Closest(hit(objs[i], ray, t_min, closest_so_far, rnd))

World_hit(self, ray, t_min, t_max, rnd) ==
    World_hit_from(self.objects, 1, ray, t_min, t_max, None, rnd)

\* BVH::hit: the box first, then the leaf, or the left child and the right
\* child up to the left hit.
BVH_hit(self, ray, t_min, t_max, rnd) ==
    IF AABB_hit(self.bbox, ray, t_min, t_max)
    THEN IF self.contents.kind = "Leaf"
         THEN hit(self.contents.obj, ray, t_min, t_max, rnd)
         ELSE LET Nearer(hit_left, hit_right) ==
                      IF hit_right = None THEN hit_left
                      ELSE IF hit_left = None THEN hit_right
                      ELSE IF hit_left.t < hit_right.t THEN hit_left
                      ELSE hit_right
                  Right(hit_left) ==
                      Nearer(hit_left,
                             BVH_hit(self.contents.right, ray, t_min,
                                     IF hit_left # None THEN hit_left.t ELSE t_max,
                                     rnd))
              IN  Right(BVH_hit(self.contents.left, ray, t_min, t_max, rnd))
    ELSE None

FlipFace_hit(self, ray, t_min, t_max, rnd) ==
    LET Flipped(rec) ==
            IF rec # None THEN [rec EXCEPT !.front_face = ~rec.front_face]
            ELSE None
    IN  Flipped(hit(self.obj, ray, t_min, t_max, rnd))

Translate_hit(self, ray, t_min, t_max, rnd) ==
    LET moved_ray == Ray(VSub(ray.origin, self.offset), ray.direction)
        Moved_back(hit_record) ==
            IF hit_record # None
            THEN HitRecord_new(moved_ray, hit_record.t,
                               VAdd(hit_record.hit_point, self.offset),
                               hit_record.normal, hit_record.material)
            ELSE None
    IN  Moved_back(hit(self.obj, moved_ray, t_min, t_max, rnd))

\* RotateY::hit: the ray is turned into the frame of the object, the hit
\* point and the normal of the hit are turned back, and HitRecord::new is
\* given the turned ray with the normal that was turned back.
RotateY_hit(self, ray, t_min, t_max, rnd) ==
    LET rotated_ray ==
            Ray(<<ray.origin[1] * self.cos_theta - ray.origin[3] * self.sin_theta,
                  ray.origin[2],
                  ray.origin[1] * self.sin_theta + ray.origin[3] * self.cos_theta>>,
                <<ray.direction[1] * self.cos_theta
                      - ray.direction[3] * self.sin_theta,
                  ray.direction[2],
                  ray.direction[1] * self.sin_theta
                      + ray.direction[3] * self.cos_theta>>)
        Turned_back(rec) ==
            IF rec # None
            THEN HitRecord_new(rotated_ray, rec.t,
                     <<rec.hit_point[1] * self.cos_theta
                           + rec.hit_point[3] * self.sin_theta,
                       rec.hit_point[2],
                       -rec.hit_point[1] * self.sin_theta
                           + rec.hit_point[3] * self.cos_theta>>,
                     <<rec.normal[1] * self.cos_theta
                           + rec.normal[3] * self.sin_theta,
                       rec.normal[2],
                       -rec.normal[1] * self.sin_theta
                           + rec.normal[3] * self.cos_theta>>,
                     rec.material)
            ELSE None
    IN  Turned_back(hit(self.obj, rotated_ray, t_min, t_max, rnd))

\* ConstantMedium::hit.  rnd is the free-flight draw
\* neg_inv_density * ln(rng.gen()) already divided by the ray's length (a
\* positive factor on both sides of the comparison with the distance inside
\* the boundary).
ConstantMedium_hit(self, ray, t_min, t_max, rnd) ==
    LET Inside(rec1, rec2) ==
            IF rec2 = None THEN None
            ELSE LET t1 == IF rec1.t < t_min THEN t_min ELSE rec1.t
                     t2 == IF rec2.t > t_max THEN t_max ELSE rec2.t
                 IN  IF t1 >= t2 THEN None
                     ELSE LET e == IF t1 < 0 THEN 0 ELSE t1
                          IN  IF rnd > t2 - e THEN None
                              ELSE HitRecord_new(ray, e + rnd, at(ray, e + rnd),
                                       Vec3(1, 0, 0), self.phase_function)
        Entered(rec1) ==
            IF rec1 = None THEN None
            ELSE Inside(rec1, hit(self.boundary, ray, rec1.t + MediumStep,
                                  F32_MAX, rnd))
    IN  Entered(hit(self.boundary, ray, F32_MIN, F32_MAX, rnd))

\* Hittable::hit, dispatched on the kind of the hittable
hit(self, ray, t_min, t_max, rnd) ==
    CASE self.kind = "Sphere" -> Sphere_hit(self, ray, t_min, t_max)
      [] self.kind = "XYRect" -> XYRect_hit(self, ray, t_min, t_max)
      [] self.kind = "XZRect" -> XZRect_hit(self, ray, t_min, t_max)
      [] self.kind = "YZRect" -> YZRect_hit(self, ray, t_min, t_max)
      [] self.kind = "Block" -> World_hit(self.sides, ray, t_min, t_max, rnd)
      [] self.kind = "FlipFace" -> FlipFace_hit(self, ray, t_min, t_max, rnd)
      [] self.kind = "Translate" -> Translate_hit(self, ray, t_min, t_max, rnd)
      [] self.kind = "RotateY" -> RotateY_hit(self, ray, t_min, t_max, rnd)
      [] self.kind = "ConstantMedium" ->
            ConstantMedium_hit(self, ray, t_min, t_max, rnd)
      [] self.kind = "World" -> World_hit(self, ray, t_min, t_max, rnd)
      [] self.kind = "BVH" -> BVH_hit(self, ray, t_min, t_max, rnd)

-----------------------------------------------------------------------------
(* BVH::new (bvh.rs).                                                       *)

Panic == [kind |-> "Panic"]

NotBuilt == [kind |-> "NotBuilt"]

\* box_compare: the order of two hittables by the min corner of their boxes
\* on one axis; Equal when either has no box.
box_compare(a, b, axis) ==
    LET Order(opt_box_a, opt_box_b) ==
            IF opt_box_a # None /\ opt_box_b # None
            THEN IF opt_box_a.min[axis + 1] < opt_box_b.min[axis + 1] THEN "Less"
                 ELSE IF opt_box_a.min[axis + 1] > opt_box_b.min[axis + 1]
                      THEN "Greater"
                 ELSE "Equal"
            ELSE "Equal"
    IN  Order(bounding_box(a), bounding_box(b))

\* objects.sort_unstable_by(box_compare) on the short vectors of the model:
\* an insertion sort, each element shifted left past the elements it is less
\* than.
RECURSIVE shift_tail(_, _, _)
shift_tail(v, x, axis) ==
    IF v = <<>> THEN <<x>>
    ELSE IF box_compare(x, v[Len(v)], axis) = "Less"
         THEN Append(shift_tail(SubSeq(v, 1, Len(v) - 1), x, axis), v[Len(v)])
         ELSE Append(v, x)

RECURSIVE sort_unstable_by(_, _)
sort_unstable_by(v, axis) ==
    IF v = <<>> THEN <<>>
    ELSE shift_tail(sort_unstable_by(SubSeq(v, 1, Len(v) - 1), axis),
                    v[Len(v)], axis)

\* main_box without the loop: the box of the first object
main_box_from_first_only(objs, i, main_box) == main_box

\* main_box after the loop over objects.iter().skip(1), from member i on
RECURSIVE main_box_from(_, _, _)
main_box_from(objs, i, main_box) ==
    IF i > Len(objs) THEN main_box
    ELSE main_box_from(objs, i + 1,
                       surrounding_box(bounding_box(objs[i]), main_box))

\* left_box after the prefix scan has reached index i (boxes[0..=i])
RECURSIVE left_box(_, _)
left_box(boxes, i) ==
    IF i = 0 THEN boxes[0]
    ELSE surrounding_box(left_box(boxes, i - 1), boxes[i])

\* right_box after the suffix scan has reached index i (boxes[i..=n-1])
RECURSIVE right_box(_, _, _)
right_box(boxes, i, n) ==
    IF i = n - 1 THEN boxes[n - 1]
    ELSE surrounding_box(right_box(boxes, i + 1, n), boxes[i])

\* the surface-area heuristic of split index i, as the code weighs it.  A
\* product or sum beyond the largest finite f32 is the infinity; 0.0 times
\* the infinity is NaN, written as the infinity here: the value is only ever
\* tested by sah < min_sah against a finite min_sah, which fails for both.
sah(boxes, i, n) ==
    LET Inf == F32_MAX_AREA + 1
        Weighed(count, a) ==
            IF a = Inf THEN Inf
            ELSE IF count > 0 /\ a > F32_MAX_AREA \div count THEN Inf
            ELSE count * a
        Sum(l, r) ==
            IF l = Inf \/ r = Inf \/ l + r > F32_MAX_AREA THEN Inf ELSE l + r
    IN  Sum(Weighed(i, area(left_box(boxes, i))),
            Weighed(n - i - 1, area(right_box(boxes, i + 1, n))))

\* the first index of 0..n-2 with the least sah (the loop replaces the
\* minimum only by a strictly smaller value).  min_sah starts at f32::MAX
\* and min_sah_idx at usize::MAX, which stays when no sah is below f32::MAX;
\* usize::MAX is written -1, the integer that 1 is added to with the same
\* result, 0, as to usize::MAX in a build without overflow checks.
min_sah_idx(boxes, n) ==
    IF \A j \in 0..(n - 2) : sah(boxes, j, n) >= F32_MAX_AREA THEN -1
    ELSE CHOOSE i \in 0..(n - 2) :
            /\ \A j \in 0..(n - 2) : sah(boxes, i, n) <= sah(boxes, j, n)
            /\ \A j \in 0..(i - 1) : sah(boxes, j, n) > sah(boxes, i, n)

\* a leaf that counts for nothing
Leaf_of_size_zero(obj) ==
    [kind |-> "BVH", bbox |-> bounding_box(obj), size |-> 0,
     contents |-> [kind |-> "Leaf", obj |-> obj]]

\* BVH::new: the leaf of one object
Leaf(obj) ==
    [kind |-> "BVH", bbox |-> bounding_box(obj), size |-> 1,
     contents |-> [kind |-> "Leaf", obj |-> obj]]

RECURSIVE BVH_new(_)
RECURSIVE inner(_, _)

\* fn inner(objects, n, time0, time1): objects is the whole vector handed
\* down, n the number of its leading objects that are placed.
inner(objs, n) ==
    IF \E i \in 1..Len(objs) : bounding_box(objs[i]) = None
    THEN Panic      \* bounding_box(..).unwrap() on None
    ELSE IF n = 0
    THEN Panic      \* left_area[0] and boxes[0] of vectors of length 0
    ELSE LET Node(main_box, left, right) ==
                 IF left = Panic \/ right = Panic THEN Panic
                 ELSE [kind     |-> "BVH",
                       bbox     |-> main_box,
                       size     |-> left.size + right.size,
                       contents |-> [kind |-> "Node", left |-> left,
                                     right |-> right]]
             Split(main_box, sorted, idx) ==
                 \* min_sah_idx + 1 on usize::MAX: a panic with overflow
                 \* checks, inner(.., 0) without them
                 IF idx = -1 THEN inner(sorted, idx + 1)
                 ELSE
                 Node(main_box,
                      IF idx = 0 THEN BVH_new(<<sorted[1]>>)
                      ELSE inner(sorted, idx + 1),
                      IF idx = n - 2 THEN BVH_new(<<sorted[idx + 2]>>)
                      ELSE inner(SubSeq(sorted, idx + 2, Len(sorted)),
                                 n - idx - 1))
             Sorted(main_box, sorted) ==
                 Split(main_box, sorted,
                       min_sah_idx([i \in 0..(n - 1) |->
                                       bounding_box(sorted[i + 1])], n))
             Boxed(main_box) ==
                 Sorted(main_box, sort_unstable_by(objs, longest_axis(main_box)))
         IN  Boxed(main_box_from(objs, 2, bounding_box(objs[1])))

\* BVH::new without the zero-objects arm: an empty list yields a leaf over
\* an empty world with a degenerate box
BVH_new_no_empty_check(objs) ==
    IF Len(objs) = 0
    THEN [kind |-> "BVH", bbox |-> AABB(<<0, 0, 0>>, <<0, 0, 0>>), size |-> 0,
          contents |-> [kind |-> "Leaf", obj |-> World_new(<<>>)]]
    ELSE IF Len(objs) = 1
         THEN IF bounding_box(objs[1]) = None THEN Panic
              ELSE Leaf(objs[1])
         ELSE inner(objs, Len(objs))

\* BVH::new(objects, time0, time1)
BVH_new(objs) ==
    IF Len(objs) = 0 THEN Panic     \* panic!("Can't create a BVH out of zero objects!")
    ELSE IF Len(objs) = 1
         THEN IF bounding_box(objs[1]) = None THEN Panic    \* unwrap() on None
              ELSE Leaf(objs[1])
         ELSE inner(objs, Len(objs))

-----------------------------------------------------------------------------
(* f32, in miniature.  A finite value is an integer count of units of       *)
(* 1 / Unit with at most MantissaBits significant bits; every operation     *)
(* rounds its exact result to the nearest such value, ties to the even      *)
(* mantissa, and a result beyond F32_LARGEST is an infinity.  Values below  *)
(* 2^MantissaBits units lie on the unit grid, as subnormals do.  NAN and    *)
(* the infinities are values outside the finite range.  There is no         *)
(* negative zero.                                                           *)

MantissaBits == 9

FracBits == 10

Unit == 2 ^ FracBits

\* the largest finite value, as an integer
LargestInt == 512

F32_LARGEST == LargestInt * Unit

F_INF == F32_LARGEST + 1

F_NEG_INF == -F_INF

NAN == F32_LARGEST + 2

is_nan(x) == x = NAN

is_finite(x) == x # NAN /\ x # F_INF /\ x # F_NEG_INF

Abs(n) == IF n < 0 THEN -n ELSE n

Sign(n) == IF n < 0 THEN -1 ELSE 1

RECURSIVE BitLen(_)
BitLen(n) == IF n = 0 THEN 0 ELSE 1 + BitLen(n \div 2)

\* the distance between neighbouring values at magnitude i (in units)
Spacing(i) == IF i < 2 ^ MantissaBits THEN 1 ELSE 2 ^ (BitLen(i) - MantissaBits)

\* Round the magnitude i + r / d (0 <= r < d) to the nearest value, ties to
\* even; beyond the largest finite value the result is F_INF.
RoundMag(i, r, d) ==
    LET Finite(res) == IF res > F32_LARGEST THEN F_INF ELSE res
        Nearest_even(s, lo) ==
            LET rem   == i - lo
                h     == s \div 2
                above == IF s = 1 THEN r > d - r
                         ELSE rem > h \/ (rem = h /\ r > 0)
                tie   == IF s = 1 THEN r > 0 /\ r = d - r
                         ELSE rem = h /\ r = 0
                even  == (lo \div s) % 2 = 0
            IN  Finite(IF above \/ (tie /\ ~even) THEN lo + s ELSE lo)
        On_grid(s) == Nearest_even(s, (i \div s) * s)
    IN  On_grid(Spacing(i))

\* (n as f32) for a usize n
from_usize(n) == RoundMag(n * Unit, 0, 1)

\* the literal num / den (num >= 0), rounded as the compiler rounds it
Lit(num, den) ==
    RoundMag((num * Unit) \div den, (num * Unit) % den, den)

f32_add(a, b) ==
    IF a = NAN \/ b = NAN THEN NAN
    ELSE IF a = F_INF THEN (IF b = F_NEG_INF THEN NAN ELSE F_INF)
    ELSE IF a = F_NEG_INF THEN (IF b = F_INF THEN NAN ELSE F_NEG_INF)
    ELSE IF b = F_INF \/ b = F_NEG_INF THEN b
    ELSE Sign(a + b) * RoundMag(Abs(a + b), 0, 1)

f32_mul(a, b) ==
    IF a = NAN \/ b = NAN THEN NAN
    ELSE IF ~is_finite(a) \/ ~is_finite(b)
         THEN IF a = 0 \/ b = 0 THEN NAN ELSE Sign(a) * Sign(b) * F_INF
    ELSE LET ah == Abs(a) \div Unit
             al == Abs(a) % Unit
             bh == Abs(b) \div Unit
             bl == Abs(b) % Unit
         IN  IF ah * bh > LargestInt THEN Sign(a) * Sign(b) * F_INF
             ELSE Sign(a) * Sign(b) *
                  RoundMag(ah * bh * Unit + ah * bl + al * bh + (al * bl) \div Unit,
                           (al * bl) % Unit, Unit)

f32_div(a, b) ==
    IF a = NAN \/ b = NAN THEN NAN
    ELSE IF ~is_finite(a)
         THEN IF ~is_finite(b) THEN NAN ELSE Sign(a) * Sign(b) * F_INF
    ELSE IF ~is_finite(b) THEN 0
    ELSE IF b = 0 THEN (IF a = 0 THEN NAN ELSE Sign(a) * F_INF)
    ELSE LET q1 == Abs(a) \div Abs(b)
             r1 == Abs(a) % Abs(b)
         IN  IF q1 > LargestInt THEN Sign(a) * Sign(b) * F_INF
             ELSE Sign(a) * Sign(b) *
                  RoundMag(q1 * Unit + (r1 * Unit) \div Abs(b),
                           (r1 * Unit) % Abs(b), Abs(b))

\* f32::sqrt: NaN for a negative argument
f32_sqrt(a) ==
    IF a = NAN \/ a < 0 THEN NAN
    ELSE IF a = F_INF THEN F_INF
    ELSE LET n == a * Unit
             Nearest_even(i, s, lo) ==
                 LET m == lo + s \div 2
                 IN  IF s = 1 THEN (IF n > i * i + i THEN i + 1 ELSE i)
                     ELSE IF n > m * m \/ (n = m * m /\ (lo \div s) % 2 = 1)
                          THEN lo + s
                          ELSE lo
             On_grid(i, s) == Nearest_even(i, s, (i \div s) * s)
             Root(i) == On_grid(i, Spacing(i))
         IN  Root(ISqrtIn(n, 0, 2 ^ 15))

\* a < b and a > b on f32: false when either side is NaN
f32_lt(a, b) == a # NAN /\ b # NAN /\ a < b

f32_gt(a, b) == a # NAN /\ b # NAN /\ a > b

\* u32::MAX; the value stands for 2^32 - 1, which clamp keeps as_u32 away from
U32_MAX == 2147483647

\* (x as u32): Rust's saturating cast, NaN to 0, the fraction dropped
as_u32(x) ==
    IF x = NAN THEN 0
    ELSE IF x <= 0 THEN 0
    ELSE IF x = F_INF THEN U32_MAX
    ELSE x \div Unit

\* clamp without the upper arm
clamp_lower_only(x, min, max) ==
    IF f32_lt(x, min) THEN min ELSE x

\* util::clamp
clamp(x, min, max) ==
    IF f32_lt(x, min) THEN min
    ELSE IF f32_gt(x, max) THEN max
    ELSE x

\* Vec3 of f32 with the operators of vec3.rs
CAdd(a, b) == <<f32_add(a[1], b[1]), f32_add(a[2], b[2]), f32_add(a[3], b[3])>>

CMul(a, b) == <<f32_mul(a[1], b[1]), f32_mul(a[2], b[2]), f32_mul(a[3], b[3])>>

CScale(a, t) == <<f32_mul(a[1], t), f32_mul(a[2], t), f32_mul(a[3], t)>>

\* Div<f32> for Vec3: (1.0 / rhs) * self
CDiv(a, t) ==
    LET Times(inv) == <<f32_mul(inv, a[1]), f32_mul(inv, a[2]), f32_mul(inv, a[3])>>
    IN  Times(f32_div(Unit, t))

-----------------------------------------------------------------------------
(* Materials (material/*.rs) and ray_color (renderer.rs).                   *)

Lambertian(albedo) == [kind |-> "Lambertian", albedo |-> albedo]

Metal(albedo) == [kind |-> "Metal", albedo |-> albedo, fuzz |-> 0]

DiffuseLight(emit) == [kind |-> "DiffuseLight", emit |-> emit]

\* a Vec3 of f32 from integer components
ToF32(v) == <<v[1] * Unit, v[2] * Unit, v[3] * Unit>>

f32_dot(a, b) ==
    f32_add(f32_add(f32_mul(a[1], b[1]), f32_mul(a[2], b[2])), f32_mul(a[3], b[3]))

\* Vec3::unit_vector: self / self.length()
unit_vector(v) == CDiv(v, f32_sqrt(f32_dot(v, v)))

\* std::f32::consts::PI
PI == Lit(355, 113)

\* Vec3::reflect with the factor 2.0 left out
Vec3_reflect_once(v, n) ==
    LET Minus(a, b) == IF b = NAN THEN NAN ELSE f32_add(a, -b)
        Off(w) == <<Minus(v[1], w[1]), Minus(v[2], w[2]), Minus(v[3], w[3])>>
    IN  Off(CScale(n, f32_dot(v, n)))

\* Vec3::reflect on f32 vectors: *self - 2.0 * self.dot(n) * (*n), the
\* product 2.0 * dot first, then f32 * Vec3, then Vec3 - Vec3
Vec3_reflect(v, n) ==
    LET Minus(a, b) == IF b = NAN THEN NAN ELSE f32_add(a, -b)
        Off(w) == <<Minus(v[1], w[1]), Minus(v[2], w[2]), Minus(v[3], w[3])>>
    IN  Off(CScale(n, f32_mul(2 * Unit, f32_dot(v, n))))

\* Vec3::reflect on the exact vectors of the geometry: v - 2 * dot(v, n) * n
reflect(v, n) == VSub(v, VScale(2 * dot(v, n), n))

\* Material::emitted with every material a white light
emitted_of_any_material(material) == <<Unit, Unit, Unit>>

\* Material::emitted: only a DiffuseLight emits
emitted_of(material) ==
    IF material.kind = "DiffuseLight" THEN material.emit ELSE <<0, 0, 0>>

\* Material::scatter.  A Lambertian scatters along a cosine PDF around the
\* normal, a Metal (fuzz 0) along the mirror direction when that leaves the
\* surface, a DiffuseLight never.
scatter(material, ray, rec) ==
    CASE material.kind = "Lambertian" ->
            [kind |-> "PDF", attenuation |-> material.albedo, w |-> rec.normal]
      [] material.kind = "Metal" ->
            LET reflected == reflect(ray.direction, rec.normal)
            IN  IF dot(reflected, rec.normal) > 0
                THEN [kind |-> "Specular", attenuation |-> material.albedo,
                      ray |-> Ray(rec.hit_point, reflected)]
                ELSE None
      [] material.kind = "DiffuseLight" -> None

\* Material::scattering_pdf: Lambertian only, 0.0 for the others
scattering_pdf(material, rec, scattered) ==
    IF material.kind = "Lambertian"
    THEN LET Of(cosine) == IF f32_lt(cosine, 0) THEN 0 ELSE f32_div(cosine, PI)
         IN  Of(f32_dot(ToF32(rec.normal),
                        unit_vector(ToF32(scattered.direction))))
    ELSE 0

\* CosinePDF::value
CosinePDF_value(w, direction) ==
    LET Of(cosine) == IF ~f32_gt(cosine, 0) THEN 0 ELSE f32_div(cosine, PI)
    IN  Of(f32_dot(unit_vector(ToF32(direction)), ToF32(w)))

\* the t_min of the query of ray_color, 0.001 in the units of the geometry
HitTMin == 10

\* Sphere::pdf_value: the reciprocal of the solid angle of the sphere seen
\* from origin when the ray from origin along v hits it, 0.0 otherwise
Sphere_pdf_value(self, origin, v) ==
    IF Sphere_hit(self, Ray(origin, v), HitTMin, F32_MAX) # None
    THEN LET Minus(a, b) == IF b = NAN THEN NAN ELSE f32_add(a, -b)
             Density(ratio) ==
                 f32_div(Unit,
                         f32_mul(f32_mul(2 * Unit, PI),
                                 Minus(Unit, f32_sqrt(Minus(Unit, ratio)))))
         IN  Density(f32_div(from_usize(self.radius * self.radius),
                             from_usize(dot(VSub(self.center, origin),
                                            VSub(self.center, origin)))))
    ELSE 0

\* Hittable::pdf_value: Sphere overrides it, every other hittable (World
\* among them) keeps the default of the trait, 0.0
pdf_value(lights, origin, v) ==
    IF lights.kind = "Sphere" THEN Sphere_pdf_value(lights, origin, v) ELSE 0

\* MixturePDF::value of the light PDF and the scatter PDF
MixturePDF_value(lights, origin, w, direction) ==
    f32_add(f32_mul(Unit \div 2, pdf_value(lights, origin, direction)),
            f32_mul(Unit \div 2, CosinePDF_value(w, direction)))

Black == <<0, 0, 0>>

RECURSIVE ray_color(_, _, _, _, _, _, _)

\* The arms of ray_color below the depth test: one bvh.hit, then the
\* material of the hit decides.  dirs are the directions the rng yields to
\* mixture_pdf.generate, in order.  The result is the colour and the number
\* of bvh.hit calls made.
ray_color_bounce(dirs, ray, background_color, world, materials, lights, reflection_depth) ==
    LET Specular(attenuation, sub) ==
            [color   |-> CMul(attenuation, sub.color),
             queries |-> 1 + sub.queries]
        Diffuse(emitted, attenuation, spdf, sub, pdf_val) ==
            [color   |-> CAdd(emitted,
                              CDiv(CMul(CScale(attenuation, spdf), sub.color),
                                   pdf_val)),
             queries |-> 1 + sub.queries]
        Scattered(hit_record, material, sc) ==
            IF sc = None
            THEN [color |-> emitted_of(material), queries |-> 1]
            ELSE IF sc.kind = "Specular"
            THEN Specular(sc.attenuation,
                          ray_color(dirs, sc.ray, background_color, world,
                                    materials, lights, reflection_depth - 1))
            ELSE LET scattered == Ray(hit_record.hit_point, Head(dirs))
                 IN  Diffuse(emitted_of(material), sc.attenuation,
                             scattering_pdf(material, hit_record, scattered),
                             ray_color(Tail(dirs), scattered, background_color,
                                       world, materials, lights,
                                       reflection_depth - 1),
                             MixturePDF_value(lights, hit_record.hit_point,
                                              sc.w, scattered.direction))
        Hit(hit_record) ==
            IF hit_record # None
            THEN Scattered(hit_record, materials[hit_record.material],
                           scatter(materials[hit_record.material], ray,
                                   hit_record))
            ELSE [color |-> background_color, queries |-> 1]
    IN  Hit(hit(world, ray, HitTMin, INFINITY, 1))

\* ray_color with the depth test after the intersection query
ray_color_query_first(dirs, ray, background_color, world, materials, lights, reflection_depth) ==
    IF reflection_depth = 0
    THEN [color |-> Black, queries |-> 1]
    ELSE ray_color_bounce(dirs, ray, background_color, world, materials, lights,
                          reflection_depth)

\* ray_color that answers the background once the depth is used up
ray_color_background_at_zero(dirs, ray, background_color, world, materials, lights, reflection_depth) ==
    IF reflection_depth = 0 THEN [color |-> background_color, queries |-> 0]
    ELSE ray_color_bounce(dirs, ray, background_color, world, materials, lights,
                          reflection_depth)

\* ray_color(rng, ray, background_color, bvh, lights, reflection_depth)
ray_color(dirs, ray, background_color, world, materials, lights, reflection_depth) ==
    IF reflection_depth = 0 THEN [color |-> Black, queries |-> 0]
    ELSE ray_color_bounce(dirs, ray, background_color, world, materials, lights,
                          reflection_depth)

-----------------------------------------------------------------------------
(* render (renderer.rs): the work of one pixel.                             *)

\* color += sample with each NaN component of the sample taken as zero
accumulate_skip_nan(color, sample) ==
    CAdd(color, <<IF is_nan(sample[1]) THEN 0 ELSE sample[1],
                  IF is_nan(sample[2]) THEN 0 ELSE sample[2],
                  IF is_nan(sample[3]) THEN 0 ELSE sample[3]>>)

\* color += ray_color(..): AddAssign for Vec3
accumulate(color, sample) == CAdd(color, sample)

\* let j = screen_pos / width, row 0 at the bottom
row_of_unflipped(screen_pos, width, height) == screen_pos \div width

\* let i = screen_pos % width
column_of(screen_pos, width) == screen_pos % width

\* let j = height - 1 - screen_pos / width (usize: a negative value here is
\* an underflow)
row_of(screen_pos, width, height) == height - 1 - screen_pos \div width

\* ((i as f32) + rng.gen::<f32>()) / (width as f32)
sample_coord(i, rand, width) ==
    f32_div(f32_add(from_usize(i), rand), from_usize(width))

\* Camera::get_ray for a pinhole at the origin that looks along -z:
\* lower_left_corner + s * horizontal + t * vertical - origin with
\* lower_left_corner (-1, -1, -1), horizontal (2, 0, 0), vertical (0, 2, 0).
\* The geometry of the model follows rays along the diagonals of the grid,
\* so each component is taken to the nearer of -1 and 1.
get_ray(s, t) ==
    LET Toward(x, y) ==
            Ray(<<0, 0, 0>>,
                <<IF f32_lt(x, 0) THEN -1 ELSE 1, IF f32_lt(y, 0) THEN -1 ELSE 1, -1>>)
    IN  Toward(f32_add(-Unit, f32_mul(2 * Unit, s)),
               f32_add(-Unit, f32_mul(2 * Unit, t)))

\* one channel of the pixel from the channel's accumulated colour: NaN
\* replaced by zero, the mean over the samples, gamma 2, clamp, quantise
channel_of(c, samples_per_pixel) ==
    LET r0    == IF is_nan(c) THEN 0 ELSE c
        scale == f32_div(Unit, from_usize(samples_per_pixel))
    IN  as_u32(f32_mul(from_usize(256),
                       clamp(f32_sqrt(f32_mul(scale, r0)), 0, Lit(999, 1000))))

pixel_of(color, samples_per_pixel) ==
    <<channel_of(color[1], samples_per_pixel),
      channel_of(color[2], samples_per_pixel),
      channel_of(color[3], samples_per_pixel)>>

-----------------------------------------------------------------------------
(* The scenes and rays of the model.                                        *)

\* a block of side 2 whose min corner is at 3 * <<cx, cy, 0>>
BlockAt(cx, cy, material) ==
    Block_new(<<3 * cx, 3 * cy, 0>>, <<3 * cx + 2, 3 * cy + 2, 2>>, material)

\* World::new(vec![]): a hittable whose bounding_box is None
EmptyWorld == World_new(<<>>)

Catalogue ==
    { BlockAt(0, 0, 1),
      BlockAt(0, 5, 2),
      BlockAt(3, 2, 3),
      BlockAt(4, 3, 4),
      XYRect_new(12, 16, 9, 13, 0, 5),
      Sphere_new(<<12, 9, 2>>, 3, 6),
      Translate_new(FlipFace_new(XZRect_new(0, 4, 0, 4, 0, 7)), <<12, 11, -1>>),
      ConstantMedium_new(BlockAt(4, 3, 8), 8),
      RotateY_new(XYRect_new(-16, -12, 9, 13, 0, 9), 180),
      EmptyWorld }

RECURSIVE SeqsUpTo(_, _)
SeqsUpTo(S, n) ==
    IF n = 0 THEN {<<>>}
    ELSE LET shorter == SeqsUpTo(S, n - 1)
         IN  shorter \cup {Append(q, x) : q \in {r \in shorter : Len(r) = n - 1}, x \in S}

ObjectLists == SeqsUpTo(Catalogue, MaxObjects)

Rays ==
    { Ray(<<12, 9, -1>>, <<1, 1, 1>>),
      Ray(<<0, 0, -1>>, <<1, 1, 1>>),
      Ray(<<14, 11, 3>>, <<-1, -1, -1>>),
      Ray(<<0, 9, -1>>, <<1, -1, 1>>) }

\* (t_min, t_max)
Ranges == { <<0, INFINITY>>, <<0, 1>>, <<1, 3>> }

\* free-flight draws of ConstantMedium::hit
Flights == { 1, 2 }

NoQuery == [kind |-> "NoQuery"]

NoCall == [kind |-> "NoCall"]

-----------------------------------------------------------------------------
(* The scenes, the configurations and the rng draws of the renderer.        *)

Half == Unit \div 2

\* the materials of the scenes, by the integer that names them
SceneMaterials ==
    <<Lambertian(<<Half, Half, Half>>),
      Metal(<<Unit, Half, Half>>),
      DiffuseLight(<<4 * Unit, 4 * Unit, 4 * Unit>>)>>

\* one large sphere below the camera and no lights
SphereObjects == <<Sphere_new(<<0, -530, -30>>, 500, 1)>>

\* a floor, a light over it and a mirror behind both
BoxLight == XZRect_new(-100, 200, -200, 0, 50, 3)

BoxObjects ==
    <<XZRect_new(0, 100, -100, 0, -50, 1),
      BoxLight,
      XYRect_new(-500, 500, -500, 500, -200, 2)>>

Scenes ==
    { [name |-> "sphere", background_color |-> <<Half, Half + Half \div 2, Unit>>],
      [name |-> "box", background_color |-> <<-Unit, F_INF, Half \div 2>>] }

SphereBVH == BVH_new(SphereObjects)

BoxBVH == BVH_new(BoxObjects)

bvh_of(scene) == IF scene.name = "sphere" THEN SphereBVH ELSE BoxBVH

lights_of(scene) ==
    IF scene.name = "sphere" THEN World_new(<<>>) ELSE World_new(<<BoxLight>>)

\* the arguments of render
Configs ==
    { c \in [width : 0..MaxWidth, height : 0..MaxHeight,
             samples_per_pixel : 0..MaxSamples,
             max_reflection_depth : 0..MaxDepth, scene : Scenes] :
        c.width * c.height * c.samples_per_pixel <= MaxWork }

\* the directions mixture_pdf.generate can yield
Dirs == { <<1, 1, -1>>, <<1, -1, -1>> }

\* the directions of the bounces of one sample: along one of Dirs throughout
DirSeqs(n) == { [k \in 1..n |-> d] : d \in Dirs }

\* rng.gen::<f32>(): a multiple of 2^-MantissaBits in [0, 1); the least and
\* the greatest
Rands == { 0, Unit - 2 ^ (FracBits - MantissaBits) }

\* what the rng of a worker yields to one sample: the offsets of u and v
\* (both the least or both the greatest) and the directions of the bounces
Draws == { [ru |-> r, rv |-> r, dirs |-> q] : r \in Rands, q \in DirSeqs(MaxDepth) }

Workers == 1..NumWorkers

Idle == [kind |-> "Idle"]

Pending == [kind |-> "Pending"]

NotReturned == [kind |-> "NotReturned"]

NoRender == [kind |-> "NoRender"]

Positions == 0..(params.width * params.height - 1)

\* the sum of the sample colours of a pixel, in the order they were taken
RECURSIVE SumColors(_)
SumColors(samples) ==
    IF samples = <<>> THEN Black
    ELSE CAdd(SumColors(SubSeq(samples, 1, Len(samples) - 1)),
              samples[Len(samples)].color)

\* a position is handed out whether or not it was handed out before
Unclaimed_always(p) == p \in Positions

\* a position the parallel iterator has not handed to any worker yet
Unclaimed(p) ==
    /\ out[p] = Pending
    /\ \A w \in Workers :
          IF workers[w] = Idle THEN TRUE ELSE workers[w].screen_pos # p

\* the renderer at rest, while the geometry is exercised
RenderIdle ==
    /\ params = NoRender
    /\ workers = <<>>
    /\ rng = <<>>
    /\ out = <<>>
    /\ log = <<>>
    /\ image = NotReturned

-----------------------------------------------------------------------------
(* The geometry specification: build the BVH of a list, then query it and  *)
(* the linear scan with the same ray and range.                             *)

Init ==
    /\ objects \in ObjectLists
    /\ bvh = NotBuilt
    /\ query = NoQuery
    /\ bvh_rec = None
    /\ world_rec = None
    /\ RenderIdle
    /\ call = NoCall

\* let bvh = BVH::new(world.objects, t0, t1)
Build ==
    /\ bvh = NotBuilt
    /\ bvh' = BVH_new(objects)
    /\ UNCHANGED <<objects, query, bvh_rec, world_rec, rvars, call>>

\* bvh.hit(ray, t_min, t_max) and World::new(objects).hit(ray, t_min, t_max).
\* The tree and the list are immutable and hit is a function of its
\* arguments, so a second query reaches no state that a first one does not:
\* one query per behaviour is explored.
Query ==
    /\ bvh.kind = "BVH"
    /\ query = NoQuery
    /\ \E ray \in Rays, range \in Ranges, rnd \in Flights :
          /\ query' = [ray |-> ray, t_min |-> range[1], t_max |-> range[2]]
          /\ bvh_rec' = hit(bvh, ray, range[1], range[2], rnd)
          /\ world_rec' = hit(World_new(objects), ray, range[1], range[2], rnd)
    /\ UNCHANGED <<objects, bvh, rvars, call>>

\* World::new(objects).hit(..) alone, where BVH::new did not return
Scan ==
    /\ bvh = Panic
    /\ query = NoQuery
    /\ \E ray \in Rays, range \in Ranges, rnd \in Flights :
          /\ query' = [ray |-> ray, t_min |-> range[1], t_max |-> range[2]]
          /\ world_rec' = hit(World_new(objects), ray, range[1], range[2], rnd)
    /\ UNCHANGED <<objects, bvh, bvh_rec, rvars, call>>

Next == Build \/ Query \/ Scan

Spec == Init /\ [][Next]_vars

-----------------------------------------------------------------------------
(* The renderer specification: the workers of the parallel iterator take    *)
(* the positions 0 .. width * height - 1, each runs the closure of render   *)
(* on a position, and collect() gathers the pixels by position.            *)

GeometryIdle ==
    /\ objects = <<>>
    /\ bvh = NotBuilt
    /\ query = NoQuery
    /\ bvh_rec = None
    /\ world_rec = None

InitRender ==
    /\ params \in Configs
    /\ workers = [w \in Workers |-> Idle]
    /\ rng = [w \in Workers |-> 0]
    /\ out = [p \in Positions |-> Pending]
    /\ log = [p \in Positions |-> <<>>]
    /\ image = NotReturned
    /\ GeometryIdle
    /\ call = NoCall

\* a worker starts the closure on a position: let mut color = vec3!()
Take(w) ==
    /\ workers[w] = Idle
    /\ \E p \in Positions :
          /\ Unclaimed(p)
          /\ workers' = [workers EXCEPT ![w] =
                [kind |-> "Busy", screen_pos |-> p, color |-> Black,
                 left |-> params.samples_per_pixel]]
    /\ UNCHANGED <<params, rng, out, log, image, gvars, call>>

\* one turn of the sample loop: color += ray_color(..)
Sample(w) ==
    /\ workers[w] # Idle
    /\ workers[w].left > 0
    /\ \E draw \in Draws :
          LET p == workers[w].screen_pos
              Added(u, v, rc) ==
                  /\ workers' = [workers EXCEPT
                        ![w].color = accumulate(@, rc.color), ![w].left = @ - 1]
                  /\ log' = [log EXCEPT ![p] = Append(@,
                        [u |-> u, v |-> v, color |-> rc.color,
                         queries |-> rc.queries, gen |-> w, draw_no |-> rng[w]])]
              Traced(u, v) ==
                  Added(u, v,
                        ray_color(draw.dirs, get_ray(u, v),
                                  params.scene.background_color,
                                  bvh_of(params.scene), SceneMaterials,
                                  lights_of(params.scene),
                                  params.max_reflection_depth))
          IN  Traced(sample_coord(column_of(p, params.width), draw.ru,
                                  params.width),
                     sample_coord(row_of(p, params.width, params.height),
                                  draw.rv, params.height))
    /\ rng' = [rng EXCEPT ![w] = @ + 1]
    /\ UNCHANGED <<params, out, image, gvars, call>>

\* the end of the closure: the pixel of the accumulated colour
Finish(w) ==
    /\ workers[w] # Idle
    /\ workers[w].left = 0
    /\ out' = [out EXCEPT ![workers[w].screen_pos] =
                  [kind |-> "Pixel",
                   rgb  |-> pixel_of(workers[w].color, params.samples_per_pixel)]]
    /\ workers' = [workers EXCEPT ![w] = Idle]
    /\ UNCHANGED <<params, rng, log, image, gvars, call>>

\* collect(): the pixels in the order of their positions
Collect ==
    /\ image = NotReturned
    /\ \A p \in Positions : out[p] # Pending
    /\ image' = [kind   |-> "Returned",
                 pixels |-> [k \in 1..(params.width * params.height) |->
                                out[k - 1].rgb]]
    /\ UNCHANGED <<params, workers, rng, out, log, gvars, call>>

NextRender ==
    \/ \E w \in Workers : Take(w)
    \/ \E w \in Workers : Sample(w)
    \/ \E w \in Workers : Finish(w)
    \/ Collect

SpecRender == InitRender /\ [][NextRender]_vars

-----------------------------------------------------------------------------
(* The functions of the library that keep no state: one call each, the      *)
(* arguments drawn from the sets above.                                     *)

InitPure ==
    /\ call = NoCall
    /\ GeometryIdle
    /\ RenderIdle

\* AABB::hit(ray, tmin, tmax): the corners of the box, the origin and the
\* direction of the ray drawn component by component
Call_AABB_hit ==
    /\ call = NoCall
    /\ \E min \in {0, 1} \X {0, 1} \X {0, 1},
          max \in {1, MaxCoord} \X {1, MaxCoord} \X {1, MaxCoord},
          origin \in {-1, 1, MaxCoord + 1} \X {-1, 1, MaxCoord + 1}
                         \X {-1, 1, MaxCoord + 1},
          direction \in {-1, 1} \X {-1, 1} \X {-1, 1},
          range \in Ranges :
          call' = [kind |-> "AABB::hit", box |-> AABB(min, max),
                   ray |-> Ray(origin, direction),
                   tmin |-> range[1], tmax |-> range[2],
                   result |-> AABB_hit(AABB(min, max), Ray(origin, direction),
                                       range[1], range[2])]
    /\ UNCHANGED <<gvars, rvars>>

\* d.reflect(&n) for a vector d and a unit vector n: along an axis, with
\* components 0.6 and 0.8, or the unit_vector of a diagonal
Call_reflect ==
    /\ call = NoCall
    /\ \E d \in {-Lit(5, 2), -Unit, 0, Lit(3, 10), Unit, 3 * Unit, 300 * Unit}
                 \X {-Lit(5, 2), -Unit, 0, Lit(3, 10), Unit, 3 * Unit, 300 * Unit}
                 \X {-Lit(5, 2), -Unit, 0, Lit(3, 10), Unit, 3 * Unit, 300 * Unit},
          n \in { <<Unit, 0, 0>>, <<0, -Unit, 0>>, <<0, 0, Unit>>,
                  <<Lit(3, 5), Lit(4, 5), 0>>, <<0, -Lit(3, 5), Lit(4, 5)>>,
                  unit_vector(<<Unit, Unit, Unit>>),
                  unit_vector(<<Unit, -2 * Unit, 2 * Unit>>) } :
          call' = [kind |-> "Vec3::reflect", d |-> d, n |-> n,
                   result |-> Vec3_reflect(d, n)]
    /\ UNCHANGED <<gvars, rvars>>

\* convert_to_argb: each pixel (r, g, b) becomes the u32
\* (255 << 24) | (r << 16) | (g << 8) | b. A u32 is written as its four
\* bytes, most significant first; with every channel below 256 the shifted
\* operands occupy separate bytes, so the bitwise or places 255, r, g and b
\* in bits 24..31, 16..23, 8..15 and 0..7
convert_to_argb(rendered_scene) ==
    [i \in 1..Len(rendered_scene) |->
        LET Word(r, g, b) == <<255, r, g, b>>
        IN  Word(rendered_scene[i][1], rendered_scene[i][2], rendered_scene[i][3])]

\* convert_to_argb(rendered_scene) for a scene of one or two pixels
Call_convert_to_argb ==
    /\ call = NoCall
    /\ \E n \in 1..2 :
          \E scene \in [1..n -> {0, 7, 255} \X {0, 7, 255} \X {0, 7, 255}] :
              call' = [kind |-> "convert_to_argb", scene |-> scene,
                       result |-> convert_to_argb(scene)]
    /\ UNCHANGED <<gvars, rvars>>

\* MovingSphere::new, on f32 vectors and times
MovingSphere_new(center0, center1, time0, time1, radius, material) ==
    [kind |-> "MovingSphere", center0 |-> center0, center1 |-> center1,
     time0 |-> time0, time1 |-> time1, radius |-> radius, material |-> material]

\* MovingSphere::center with the quotient of the times left unscaled by
\* time1 - time0
MovingSphere_center_unscaled(self, time) ==
    LET Minus(a, b) == IF b = NAN THEN NAN ELSE f32_add(a, -b)
        Diff(a, b) == <<Minus(a[1], b[1]), Minus(a[2], b[2]), Minus(a[3], b[3])>>
    IN  CAdd(self.center0,
             CScale(Diff(self.center1, self.center0), Minus(time, self.time0)))

\* MovingSphere::center: center0
\*   + ((time - time0) / (time1 - time0)) * (center1 - center0), in f32
MovingSphere_center(self, time) ==
    LET Minus(a, b) == IF b = NAN THEN NAN ELSE f32_add(a, -b)
        Diff(a, b) == <<Minus(a[1], b[1]), Minus(a[2], b[2]), Minus(a[3], b[3])>>
    IN  CAdd(self.center0,
             CScale(Diff(self.center1, self.center0),
                    f32_div(Minus(time, self.time0),
                            Minus(self.time1, self.time0))))

\* sphere.center(time) for a sphere built by MovingSphere::new
Call_center ==
    /\ call = NoCall
    /\ \E center0 \in {<<-Unit, -Unit, -Unit>>, <<Unit, 0, 1>>, <<0, 2 * Unit, -Unit>>},
          center1 \in {<<Unit, Unit, Unit>>, <<1, Unit, 0>>, <<2 * Unit, -Unit, 0>>},
          time0 \in {0, Unit}, time1 \in {Unit, 2 * Unit, 3 * Unit},
          time \in {-Unit, 0, Lit(1, 2), Unit, 2 * Unit, 3 * Unit} :
          LET Made(self) ==
                  [kind |-> "MovingSphere::center", self |-> self, time |-> time,
                   result |-> MovingSphere_center(self, time)]
          IN  call' = Made(MovingSphere_new(center0, center1, time0, time1,
                                            Lit(1, 2), 1))
    /\ UNCHANGED <<gvars, rvars>>

\* ray_color(rng, &ray, &background_color, &bvh, lights, reflection_depth)
\* called on its own, for a ray from the camera or from above the box scene
Call_ray_color ==
    /\ call = NoCall
    /\ \E origin \in {<<0, 0, 0>>, <<-300, 400, 0>>},
          direction \in {-1, 1} \X {-1, 1} \X {-1},
          scene \in Scenes, dirs \in DirSeqs(MaxDepth),
          reflection_depth \in 0..MaxDepth :
          call' = [kind |-> "ray_color", dirs |-> dirs,
                   ray |-> Ray(origin, direction), scene |-> scene,
                   reflection_depth |-> reflection_depth,
                   result |-> ray_color(dirs, Ray(origin, direction),
                                        scene.background_color, bvh_of(scene),
                                        SceneMaterials, lights_of(scene),
                                        reflection_depth)]
    /\ UNCHANGED <<gvars, rvars>>

\* World::new(objects).bounding_box(t0, t1) for up to three members
Call_World_bounding_box ==
    /\ call = NoCall
    /\ \E objs \in SeqsUpTo({ BlockAt(0, 5, 2),
                               XYRect_new(12, 16, 9, 13, 0, 5),
                               Sphere_new(<<12, 9, 2>>, 3, 6),
                               Translate_new(Sphere_new(<<0, 0, 0>>, 1, 6),
                                             <<-4, 20, 7>>),
                               EmptyWorld }, 3) :
          call' = [kind |-> "World::bounding_box", objects |-> objs,
                   result |-> bounding_box(World_new(objs))]
    /\ UNCHANGED <<gvars, rvars>>

\* World::new(objects).pdf_value(&origin, &v) for a light list of up to two
\* members
Call_pdf_value ==
    /\ call = NoCall
    /\ \E objs \in SeqsUpTo({ Sphere_new(<<0, 0, 0>>, 2, 6),
                               Sphere_new(<<100, 0, 0>>, 2, 6),
                               XYRect_new(12, 16, 9, 13, 0, 5) }, 2),
          origin \in {<<-12, -12, -12>>, <<88, 12, 12>>},
          v \in {<<1, 1, 1>>, <<1, -1, -1>>} :
          call' = [kind |-> "World::pdf_value", objects |-> objs,
                   origin |-> origin, v |-> v,
                   result |-> pdf_value(World_new(objs), origin, v)]
    /\ UNCHANGED <<gvars, rvars>>

\* Rotate::new(obj, axis, angle).bounding_box(t0, t1)
Call_Rotate_bounding_box ==
    /\ call = NoCall
    /\ \E obj \in { BlockAt(0, 5, 2), XYRect_new(12, 16, 9, 13, 0, 5),
                     Sphere_new(<<12, 9, 2>>, 3, 6),
                     Translate_new(XZRect_new(0, 4, 0, 7, 0, 7), <<-9, 11, -1>>),
                     EmptyWorld },
          axis \in {"X", "Y", "Z"}, angle \in {0, 90, 180, 270} :
          call' = [kind |-> "Rotate::bounding_box", obj |-> obj, axis |-> axis,
                   angle |-> angle,
                   result |-> bounding_box(Rotate_new(obj, axis, angle))]
    /\ UNCHANGED <<gvars, rvars>>

\* XYRect::bounding_box, XZRect::bounding_box and YZRect::bounding_box with
\* the fields as f32 values: k - 0.0001 and k + 0.0001 are rounded as every
\* f32 difference and sum.  The fields count units of the padding, as in
\* the geometry above, and the f32 keeps MantissaBits significant bits of a
\* count, so that the padding is to k = 2^MantissaBits what 0.0001 is to a
\* k of about 2^24 * 0.0001 of the code.
Rect_bounding_box(self) ==
    CASE self.kind = "XYRect" ->
            AABB(<<self.x0, self.y0, f32_add(self.k, -RectPad)>>,
                 <<self.x1, self.y1, f32_add(self.k, RectPad)>>)
      [] self.kind = "XZRect" ->
            AABB(<<self.x0, f32_add(self.k, -RectPad), self.z0>>,
                 <<self.x1, f32_add(self.k, RectPad), self.z1>>)
      [] self.kind = "YZRect" ->
            AABB(<<f32_add(self.k, -RectPad), self.y0, self.z0>>,
                 <<f32_add(self.k, RectPad), self.y1, self.z1>>)

\* the bounding_box of a rectangle with strictly ordered bounds on a plane
\* near to or far from the origin
Call_Rect_bounding_box ==
    /\ call = NoCall
    /\ \E a0 \in {-4, 0}, a1 \in {1, 4}, b0 \in {-4, 0}, b1 \in {1, 4},
          k \in {-4096, -600, -3, 0, 5, 511, 600, 1024, 4096} :
          \E rect \in { XYRect_new(a0, a1, b0, b1, k, 1),
                         XZRect_new(a0, a1, b0, b1, k, 1),
                         YZRect_new(a0, a1, b0, b1, k, 1) } :
              call' = [kind |-> "Rect::bounding_box", rect |-> rect,
                       result |-> Rect_bounding_box(rect)]
    /\ UNCHANGED <<gvars, rvars>>

\* BVH::new(objects, time0, time1) for up to three objects, small ones and
\* ones whose surface area is beyond the largest finite f32
Call_BVH_new ==
    /\ call = NoCall
    /\ \E objs \in SeqsUpTo({ BlockAt(0, 0, 1), BlockAt(3, 2, 3),
                               Block_new(<<-10000, -10000, -10000>>,
                                         <<10000, 10000, 10000>>, 2),
                               Sphere_new(<<0, 0, 0>>, 9000, 6) }, 3) :
          call' = [kind |-> "BVH::new", objects |-> objs,
                   result |-> BVH_new(objs)]
    /\ UNCHANGED <<gvars, rvars>>

\* Translate::new(obj, offset).hit(ray, ..) and RotateY::new(obj, angle)
\* .hit(ray, ..), next to the hit of the wrapped object obj that the wrapper
\* asks for: the ray of the call is the ray in the frame of obj, moved by
\* the offset or turned by the angle.
Call_wrapper_hit ==
    /\ call = NoCall
    /\ \E obj \in { XYRect_new(0, 4, 0, 4, 5, 1),
                     FlipFace_new(XYRect_new(0, 4, 0, 4, 5, 1)),
                     Block_new(<<-2, -2, 0>>, <<4, 4, 5>>, 2) },
          inner_ray \in { Ray(<<-10, -10, 17>>, <<1, 1, -1>>),
                          Ray(<<-10, -10, -7>>, <<1, 1, 1>>),
                          Ray(<<-12, -12, -12>>, <<1, 1, 1>>),
                          Ray(<<14, 14, 17>>, <<-1, -1, -1>>),
                          Ray(<<20, 20, 17>>, <<1, 1, -1>>) },
          offset \in { <<3, 0, 0>>, <<0, -7, 20>> },
          angle \in { 0, 90, 180, 270 },
          translated \in BOOLEAN :
          LET Turn(self, v) ==
                  <<v[1] * self.cos_theta + v[3] * self.sin_theta,
                    v[2],
                    -v[1] * self.sin_theta + v[3] * self.cos_theta>>
              Made(self, ray) ==
                  [kind |-> "Wrapper::hit", self |-> self, ray |-> ray,
                   wrapped |-> hit(obj, inner_ray, HitTMin, INFINITY, 1),
                   result |-> hit(self, ray, HitTMin, INFINITY, 1)]
              Turned(self) ==
                  Made(self, Ray(Turn(self, inner_ray.origin),
                                 Turn(self, inner_ray.direction)))
          IN  call' = IF translated
                      THEN Made(Translate_new(obj, offset),
                                Ray(VAdd(inner_ray.origin, offset),
                                    inner_ray.direction))
                      ELSE Turned(RotateY_new(obj, angle))
    /\ UNCHANGED <<gvars, rvars>>

NextPure ==
    \/ Call_AABB_hit \/ Call_reflect \/ Call_convert_to_argb \/ Call_center
    \/ Call_ray_color \/ Call_World_bounding_box \/ Call_pdf_value
    \/ Call_Rotate_bounding_box \/ Call_Rect_bounding_box \/ Call_BVH_new
    \/ Call_wrapper_hit

SpecPure == InitPure /\ [][NextPure]_vars

-----------------------------------------------------------------------------
(* Claims about the BVH and the hittables.                                  *)

\* the same closest hit: both None, or the same t and the same material
SameHit(r1, r2) ==
    \/ r1 = None /\ r2 = None
    \/ r1 # None /\ r2 # None /\ r1.t = r2.t /\ r1.material = r2.material

\* C1: for every non-empty list of objects that all have bounding boxes,
\* every ray and every range, BVH::new(list).hit and World::new(list).hit
\* both report no hit or both report a hit with the same t and material.
C1_BvhEqualsLinearScan ==
    (bvh.kind = "BVH" /\ query # NoQuery) => SameHit(bvh_rec, world_rec)

\* C19: for every internal node of a tree built by BVH::new, the node's bbox
\* equals AABB::surrounding_box(left.bbox, right.bbox), the union of its
\* two children's boxes.
C19_NodeBoxIsUnionOfChildren ==
    bvh.kind = "BVH" =>
        LET RECURSIVE EveryNode(_)
            EveryNode(node) ==
                node.contents.kind = "Node" =>
                    /\ node.bbox = surrounding_box(node.contents.left.bbox,
                                                   node.contents.right.bbox)
                    /\ EveryNode(node.contents.left)
                    /\ EveryNode(node.contents.right)
        IN  EveryNode(bvh)

\* C20: in every tree built by BVH::new, size counts leaves: a leaf has
\* size 1, an internal node has size left.size + right.size equal to the
\* number of leaves below it, and the root's size equals the number of
\* input objects.
C20_SizeCountsLeaves ==
    bvh.kind = "BVH" =>
        LET RECURSIVE Leaves(_)
            Leaves(node) ==
                IF node.contents.kind = "Leaf" THEN 1
                ELSE Leaves(node.contents.left) + Leaves(node.contents.right)
            RECURSIVE EveryNode(_)
            EveryNode(node) ==
                /\ node.size = Leaves(node)
                /\ node.contents.kind = "Leaf" => node.size = 1
                /\ node.contents.kind = "Node" =>
                      /\ node.size = node.contents.left.size
                                       + node.contents.right.size
                      /\ EveryNode(node.contents.left)
                      /\ EveryNode(node.contents.right)
        IN  EveryNode(bvh) /\ bvh.size = Len(objects)

\* C20 witness: a tree of four objects whose two subtrees are both internal
\* nodes
C20_Witness ==
    /\ bvh.kind = "BVH"
    /\ Len(objects) = MaxObjects
    /\ bvh.contents.kind = "Node"
    /\ bvh.contents.left.contents.kind = "Node"
    /\ bvh.contents.right.contents.kind = "Node"

\* C21: in BVH::new, for n >= 2 objects sorted along the longest axis, the
\* chosen split index i (left part = objects 0..=i, right part = objects
\* i+1..n-1) minimises area(union of the left boxes) x (number of left
\* objects) + area(union of the right boxes) x (number of right objects)
\* over all i in 0..=n-2.  The split of the root is read off the tree: its
\* left subtree holds the i + 1 objects of the left part.
C21_SplitMinimisesCost ==
    (bvh.kind = "BVH" /\ Len(objects) >= 2) =>
        LET Cost(boxes, j, n) ==
                (j + 1) * area(left_box(boxes, j))
                    + (n - j - 1) * area(right_box(boxes, j + 1, n))
            Least(boxes, i, n) ==
                \A j \in 0..(n - 2) : Cost(boxes, i, n) <= Cost(boxes, j, n)
            Boxes(sorted, n) ==
                Least([k \in 0..(n - 1) |-> bounding_box(sorted[k + 1])],
                      bvh.contents.left.size - 1, n)
        IN  Boxes(sort_unstable_by(objects,
                      longest_axis(main_box_from(objects, 2,
                                                 bounding_box(objects[1])))),
                  Len(objects))

\* C22: World::hit(ray, t_min, t_max) returns a hit whose t is the smallest
\* among the hits of all members within the range, and returns None exactly
\* when no member is hit; each later member is tested only against the
\* range narrowed to the closest hit found so far.
C22_WorldHitIsClosest ==
    query # NoQuery =>
        \A rnd \in Flights :
            LET Of(i) == hit(objects[i], query.ray, query.t_min, query.t_max, rnd)
                Closest(rec) ==
                    /\ rec = None <=> \A i \in 1..Len(objects) : Of(i) = None
                    /\ rec # None =>
                          /\ \A i \in 1..Len(objects) :
                                Of(i) # None => rec.t <= Of(i).t
                          /\ \E i \in 1..Len(objects) : Of(i) = rec
            IN  world_rec = World_hit(World_new(objects), query.ray, query.t_min,
                                      query.t_max, rnd)
                    => Closest(world_rec)

\* C22 witness: a query of a list in which an earlier member is hit nearer
\* than a later one and another later one nearer than an earlier
C22_Witness ==
    /\ query # NoQuery
    /\ world_rec # None
    /\ \E rnd \in Flights :
          LET Of(i) == hit(objects[i], query.ray, query.t_min, query.t_max, rnd)
          IN  /\ world_rec = World_hit(World_new(objects), query.ray,
                                       query.t_min, query.t_max, rnd)
              /\ \E i, j \in 1..Len(objects) :
                    /\ i < j
                    /\ Of(i) # None /\ Of(j) # None
                    /\ Of(i).t < Of(j).t
              /\ \E i, j \in 1..Len(objects) :
                    /\ i < j
                    /\ Of(i) # None /\ Of(j) # None
                    /\ Of(i).t > Of(j).t

\* C27: the leaves of the tree built by BVH::new are exactly the input
\* objects: every input object is held by exactly one leaf and no object is
\* held by two leaves.  An object that is in the list several times is in as
\* many leaves.
C27_LeavesAreTheObjects ==
    bvh.kind = "BVH" =>
        LET RECURSIVE LeavesOf(_)
            LeavesOf(node) ==
                IF node.contents.kind = "Leaf" THEN <<node.contents.obj>>
                ELSE LeavesOf(node.contents.left) \o LeavesOf(node.contents.right)
            Times(q, x) == Cardinality({ i \in 1..Len(q) : q[i] = x })
            Same(leaves) ==
                \A i \in 1..Len(objects) :
                    Times(leaves, objects[i]) = Times(objects, objects[i])
        IN  Same(LeavesOf(bvh))

\* C28: in every tree built by BVH::new, each node's bbox contains the
\* bounding box of every leaf object in its sub-tree, so a ray that misses
\* a node's box within the range misses the boxes of all objects below
\* that node.
C28_NodeBoxHoldsLeafBoxes ==
    bvh.kind = "BVH" =>
        LET RECURSIVE LeafBoxes(_)
            LeafBoxes(node) ==
                IF node.contents.kind = "Leaf"
                THEN {bounding_box(node.contents.obj)}
                ELSE LeafBoxes(node.contents.left)
                        \cup LeafBoxes(node.contents.right)
            Inside(inner_box, outer) ==
                \A a \in 1..3 : /\ outer.min[a] <= inner_box.min[a]
                                 /\ inner_box.max[a] <= outer.max[a]
            Missed(box) ==
                /\ query # NoQuery
                /\ ~AABB_hit(box, query.ray, query.t_min, query.t_max)
            RECURSIVE EveryNode(_)
            EveryNode(node) ==
                /\ \A b \in LeafBoxes(node) :
                      /\ Inside(b, node.bbox)
                      /\ Missed(node.bbox) => Missed(b)
                /\ node.contents.kind = "Node" =>
                      /\ EveryNode(node.contents.left)
                      /\ EveryNode(node.contents.right)
        IN  EveryNode(bvh)

\* C28 witness: a query whose ray meets the box of the root and misses the
\* box of the root's right child, an internal node
C28_Witness ==
    /\ bvh.kind = "BVH"
    /\ query # NoQuery
    /\ bvh.contents.kind = "Node"
    /\ bvh.contents.right.contents.kind = "Node"
    /\ AABB_hit(bvh.bbox, query.ray, query.t_min, query.t_max)
    /\ ~AABB_hit(bvh.contents.right.bbox, query.ray, query.t_min, query.t_max)

\* C8: BVH::new called with an empty object list panics; it never returns a
\* BVH for zero objects.
C8_EmptyListPanics ==
    (objects = <<>> /\ bvh # NotBuilt) => bvh = Panic

\* C8 witness: BVH::new has run on the empty list and has panicked
C8_Witness == objects = <<>> /\ bvh = Panic

\* C9: BVH::new on a list that contains a hittable whose bounding_box is
\* None does not crash: the build completes and a tree is returned.
C9_MissingBoxTolerated ==
    ((\E i \in 1..Len(objects) : bounding_box(objects[i]) = None)
        /\ bvh # NotBuilt) => bvh.kind = "BVH"

\* C10: every HitRecord returned by hit(ray, t_min, t_max), for every kind
\* of hittable, has t_min < t < t_max.
C10_HitStrictlyInsideRange ==
    query # NoQuery =>
        \A rec \in {bvh_rec, world_rec} :
            rec # None => (query.t_min < rec.t /\ rec.t < query.t_max)

\* C11: every HitRecord that hit returns, the hits through the Translate,
\* Rotate and FlipFace wrappers included, has its normal against the ray
\* that was passed to hit: dot(ray.direction, normal) <= 0.
C11_NormalAgainstRay ==
    query # NoQuery =>
        \A rec \in {bvh_rec, world_rec} :
            rec # None => dot(query.ray.direction, rec.normal) <= 0

-----------------------------------------------------------------------------
(* The claims about render and ray_color, over the behaviours of SpecRender. *)
(* log[p] holds the samples taken for position p: the u and v of the        *)
(* sample, the colour ray_color returned, the number of bvh.hit calls it    *)
(* made, the worker whose generator was drawn from and the number of that   *)
(* draw.                                                                    *)

\* the positions whose closure has returned a pixel
Finished == { p \in Positions : out[p] # Pending }

\* the samples taken so far, as pairs of a position and an index in its log
Samples == UNION { { <<p, k>> : k \in 1..Len(log[p]) } : p \in Positions }

\* color += sample over the samples of a pixel with the NaN components of
\* each sample taken as zero
RECURSIVE SumSkippingNan(_)
SumSkippingNan(samples) ==
    IF samples = <<>> THEN Black
    ELSE accumulate_skip_nan(SumSkippingNan(SubSeq(samples, 1, Len(samples) - 1)),
                             samples[Len(samples)].color)

\* C2: ray_color terminates, and one camera sample makes at most
\* max_reflection_depth BVH intersection queries.
C2_QueriesBoundedByDepth ==
    \A s \in Samples :
        log[s[1]][s[2]].queries <= params.max_reflection_depth

\* C2 witness: a sample that has used the whole depth, with two queries
C2_Witness ==
    /\ params.max_reflection_depth >= 2
    /\ \E s \in Samples :
          log[s[1]][s[2]].queries = params.max_reflection_depth

\* C3: every channel of every pixel render returns is an integer in
\* 0..=255, whatever the accumulated colour of the pixel is.
C3_ChannelsInRange ==
    \A p \in Finished : \A c \in 1..3 : out[p].rgb[c] \in 0..255

\* C3 witness: pixels have been returned whose accumulated colours held a
\* NaN channel, a negative channel and an infinite channel
C3_Witness ==
    /\ \E p \in Finished : \E c \in 1..3 : SumColors(log[p])[c] = NAN
    /\ \E p \in Finished : \E c \in 1..3 :
          SumColors(log[p])[c] # NAN /\ SumColors(log[p])[c] < 0
    /\ \E p \in Finished : \E c \in 1..3 : SumColors(log[p])[c] = F_INF

\* C4 as stated: a sample with a NaN component contributes zero, so each
\* pixel is the pixel of the sum of its samples with their NaN components
\* taken as zero.
C4_NanSampleContributesZero ==
    \A p \in Finished :
        out[p].rgb = pixel_of(SumSkippingNan(log[p]), params.samples_per_pixel)

\* C4 amended: a NaN component of one sample propagates through the
\* accumulation of its channel and render replaces the NaN total by zero,
\* so the channel of the pixel is 0 whatever the other samples are.
C4_NanSampleZeroesChannel ==
    \A p \in Finished : \A c \in 1..3 :
        (\E k \in 1..Len(log[p]) : is_nan(log[p][k].color[c]))
            => out[p].rgb[c] = 0

\* C4 witness: a returned pixel with a NaN sample and, in the same channel,
\* a positive finite sample
C4_Witness ==
    \E p \in Finished : \E c \in 1..3 : \E k1, k2 \in 1..Len(log[p]) :
        /\ is_nan(log[p][k1].color[c])
        /\ is_finite(log[p][k2].color[c])
        /\ log[p][k2].color[c] > 0

\* the pixels are width * height long and index p holds the pixel of
\* position p
RowMajor ==
    image # NotReturned =>
        /\ Len(image.pixels) = params.width * params.height
        /\ \A p \in Positions : image.pixels[p + 1] = out[p].rgb

\* C5 as stated: width * height pixels in row-major order, the samples of
\* index p taken in column i = p mod width and row j = height - 1 -
\* (p div width) from the bottom, i / width <= u < (i + 1) / width and
\* j / height <= v < (j + 1) / height, j never below zero.
C5_SamplesInHalfOpenCell ==
    /\ RowMajor
    /\ \A s \in Samples :
          LET i == s[1] % params.width
              j == params.height - 1 - (s[1] \div params.width)
              u == log[s[1]][s[2]].u
              v == log[s[1]][s[2]].v
          IN  /\ j >= 0
              /\ f32_div(from_usize(i), from_usize(params.width)) <= u
              /\ u < f32_div(from_usize(i + 1), from_usize(params.width))
              /\ f32_div(from_usize(j), from_usize(params.height)) <= v
              /\ v < f32_div(from_usize(j + 1), from_usize(params.height))

\* C5 amended: as stated but with the upper ends included, the ends being
\* the f32 quotients: i + rng.gen() rounds up to i + 1 for the greatest
\* draw, so u reaches (i + 1) / width and v reaches (j + 1) / height.
C5_SamplesInClosedCell ==
    /\ RowMajor
    /\ \A s \in Samples :
          LET i == s[1] % params.width
              j == params.height - 1 - (s[1] \div params.width)
              u == log[s[1]][s[2]].u
              v == log[s[1]][s[2]].v
          IN  /\ j >= 0
              /\ f32_div(from_usize(i), from_usize(params.width)) <= u
              /\ u <= f32_div(from_usize(i + 1), from_usize(params.width))
              /\ f32_div(from_usize(j), from_usize(params.height)) <= v
              /\ v <= f32_div(from_usize(j + 1), from_usize(params.height))

\* C5 witness: a 2 x 2 image has been returned and a sample of its right
\* column has its u on the right edge of the column
C5_Witness ==
    /\ image # NotReturned
    /\ params.width = 2 /\ params.height = 2
    /\ \E s \in Samples :
          /\ s[1] % params.width = 1
          /\ log[s[1]][s[2]].u = from_usize(1)

\* C6: every position is computed exactly once and by one worker, the
\* accumulator of a position holds the samples of that position only, each
\* generator is drawn from by its own worker only, and the pixel of
\* position p is at index p of the output.
C6_PixelsIndependent ==
    /\ \A p \in Finished :
          /\ Len(log[p]) = params.samples_per_pixel
          /\ out[p].rgb = pixel_of(SumColors(log[p]), params.samples_per_pixel)
    /\ \A p \in Positions :
          /\ \A k \in 1..Len(log[p]) : log[p][k].gen = log[p][1].gen
          /\ \A k \in 2..Len(log[p]) :
                log[p][k].draw_no = log[p][k - 1].draw_no + 1
    /\ \A w \in Workers :
          /\ rng[w] = Cardinality({ s \in Samples : log[s[1]][s[2]].gen = w })
          /\ workers[w] # Idle =>
                /\ out[workers[w].screen_pos] = Pending
                /\ workers[w].color = SumColors(log[workers[w].screen_pos])
                /\ Len(log[workers[w].screen_pos])
                      = params.samples_per_pixel - workers[w].left
                /\ \A k \in 1..Len(log[workers[w].screen_pos]) :
                      log[workers[w].screen_pos][k].gen = w
                /\ \A w2 \in Workers \ {w} :
                      workers[w2] # Idle =>
                          workers[w2].screen_pos # workers[w].screen_pos
    /\ RowMajor

\* C6 witness: an image of four pixels has been returned, both workers have
\* computed pixels of it and one of them more than one
C6_Witness ==
    /\ image # NotReturned
    /\ params.width * params.height = 4
    /\ \E s1, s2 \in Samples :
          /\ log[s1[1]][s1[2]].gen # log[s2[1]][s2[2]].gen
          /\ log[s1[1]][s1[2]].draw_no >= 1

\* the sum of n samples of the background colour
RECURSIVE BackgroundSum(_)
BackgroundSum(n) ==
    IF n = 0 THEN Black
    ELSE CAdd(BackgroundSum(n - 1), params.scene.background_color)

\* C7 as stated: the sphere scene rendered with max_reflection_depth = 0 has
\* the background colour in every sample and in every pixel.
C7_DepthZeroIsBackground ==
    (params.scene.name = "sphere" /\ params.max_reflection_depth = 0) =>
        /\ \A s \in Samples :
              log[s[1]][s[2]].color = params.scene.background_color
        /\ \A p \in Finished :
              out[p].rgb = pixel_of(BackgroundSum(params.samples_per_pixel),
                                    params.samples_per_pixel)

\* C7 amended: with max_reflection_depth = 0 ray_color returns black
\* without a query, so every sample is black and every pixel is (0, 0, 0),
\* whatever the scene and its background are.
C7_DepthZeroIsBlack ==
    params.max_reflection_depth = 0 =>
        /\ \A s \in Samples :
              /\ log[s[1]][s[2]].color = Black
              /\ log[s[1]][s[2]].queries = 0
        /\ \A p \in Finished : out[p].rgb = <<0, 0, 0>>

\* C7 witness: a sampled pixel of the sphere scene at depth 0
C7_Witness ==
    /\ params.scene.name = "sphere"
    /\ params.max_reflection_depth = 0
    /\ \E p \in Finished : Len(log[p]) >= 1

-----------------------------------------------------------------------------
(* The claims about the functions that keep no state, over SpecPure.        *)

\* C12: AABB::hit returns true exactly when the range (t_min, t_max) and the
\* three slab intervals [entry_i, exit_i] (entry and exit exchanged for a
\* negative direction component) have a common interior:
\* max(t_min, entry_x, entry_y, entry_z) < min(t_max, exit_x, exit_y, exit_z).
C12_SlabIntersection ==
    call.kind = "AABB::hit" =>
        LET o == call.ray.origin
            d == call.ray.direction
            near(i) == IF d[i] < 0 THEN call.box.max[i] ELSE call.box.min[i]
            far(i) == IF d[i] < 0 THEN call.box.min[i] ELSE call.box.max[i]
            entry(i) == Quot(near(i) - o[i], d[i])
            exit(i) == Quot(far(i) - o[i], d[i])
            lo == Max(call.tmin, Max(entry(1), Max(entry(2), entry(3))))
            hi == Min(call.tmax, Min(exit(1), Min(exit(2), exit(3))))
        IN  call.result <=> lo < hi

\* C12 witness: a ray with a negative direction component that enters the
\* box after t_min and is found to hit it
C12_Witness ==
    /\ call.kind = "AABB::hit"
    /\ call.result
    /\ call.ray.direction[1] < 0
    /\ call.box.max[1] - call.ray.origin[1] < 0
    /\ call.tmin < call.ray.origin[1] - call.box.max[1]

\* C13: AABB::hit is symmetric under a sign flip of the direction: the box
\* and the ray mirrored on one axis (origin and direction component negated,
\* min and max of the box exchanged and negated on that axis) are hit
\* exactly when the box and the ray are.
C13_MirrorSymmetry ==
    call.kind = "AABB::hit" =>
        \A axis \in 1..3 :
            LET flip(v) == [v EXCEPT ![axis] = -v[axis]]
                mirrored_box == AABB([call.box.min EXCEPT ![axis] = -call.box.max[axis]],
                                     [call.box.max EXCEPT ![axis] = -call.box.min[axis]])
                mirrored_ray == Ray(flip(call.ray.origin), flip(call.ray.direction))
            IN  AABB_hit(mirrored_box, mirrored_ray, call.tmin, call.tmax)
                    = call.result

\* C13 witness: a hit of a ray whose direction has components of both signs,
\* so that its mirror images include the exchanged and the plain order
C13_Witness ==
    /\ call.kind = "AABB::hit"
    /\ call.result
    /\ call.ray.direction[1] < 0
    /\ call.ray.direction[2] > 0

\* C14 as stated: for every vector d and unit vector n,
\* dot(reflect(d, n), n) = -dot(d, n).
C14_ReflectNegatesDot ==
    call.kind = "Vec3::reflect" =>
        /\ ~is_nan(f32_dot(call.result, call.n))
        /\ ~is_nan(f32_dot(call.d, call.n))
        /\ f32_dot(call.result, call.n) = -f32_dot(call.d, call.n)

\* C14 amended: the two sides are equal up to the rounding of the f32
\* operations, within 64 units in the last place of the largest component
\* of d (and the rounding of the values below the normal range), as long as
\* no component of d is above an eighth of the largest finite value, so
\* that nothing overflows.
C14_ReflectNegatesDotRounded ==
    (/\ call.kind = "Vec3::reflect"
     /\ \A i \in 1..3 : 8 * Abs(call.d[i]) <= F32_LARGEST) =>
        LET size == Max(Abs(call.d[1]), Max(Abs(call.d[2]), Abs(call.d[3])))
            both == f32_add(f32_dot(call.result, call.n), f32_dot(call.d, call.n))
        IN  /\ is_finite(both)
            /\ Abs(both) * 2 ^ MantissaBits <= 64 * size + 16 * 2 ^ MantissaBits

\* C14 witness: a reflection off a normal that lies along no axis, where the
\* two sides differ by rounding
C14_Witness ==
    /\ call.kind = "Vec3::reflect"
    /\ call.n[1] # 0 /\ call.n[2] # 0
    /\ \A i \in 1..3 : 8 * Abs(call.d[i]) <= F32_LARGEST
    /\ f32_dot(call.result, call.n) # -f32_dot(call.d, call.n)

\* C15: convert_to_argb maps each pixel (r, g, b) with channels in 0..255
\* to a 32-bit word whose upper 8 bits are the alpha channel (255), the
\* next 8 bits the red channel, the next 8 bits the blue channel and the
\* lowest 8 bits the green channel.
C15_AlphaRedBlueGreen ==
    call.kind = "convert_to_argb" =>
        /\ Len(call.result) = Len(call.scene)
        /\ \A i \in 1..Len(call.scene) :
              call.result[i] =
                  <<255, call.scene[i][1], call.scene[i][3], call.scene[i][2]>>

C17_SpecularAddsEmitted ==
    (call.kind = "ray_color" /\ call.reflection_depth > 0) =>
        LET Result(material, sc) ==
                sc # None /\ sc.kind = "Specular" =>
                    call.result.color =
                        CAdd(emitted_of(material),
                             CMul(sc.attenuation,
                                  ray_color(call.dirs, sc.ray,
                                            call.scene.background_color,
                                            bvh_of(call.scene), SceneMaterials,
                                            lights_of(call.scene),
                                            call.reflection_depth - 1).color))
            First(rec) ==
                rec # None =>
                    Result(SceneMaterials[rec.material],
                           scatter(SceneMaterials[rec.material], call.ray, rec))
        IN  First(hit(bvh_of(call.scene), call.ray, HitTMin, INFINITY, 1))

\* C17 witness: a ray that the mirror of the box scene sends into the light,
\* so that the result is the light tinted by the mirror
C17_Witness ==
    /\ call.kind = "ray_color"
    /\ call.reflection_depth = 2
    /\ LET First(rec) ==
                /\ rec # None
                /\ SceneMaterials[rec.material].kind = "Metal"
                /\ scatter(SceneMaterials[rec.material], call.ray, rec) # None
       IN  First(hit(bvh_of(call.scene), call.ray, HitTMin, INFINITY, 1))
    /\ call.result.color = <<4 * Unit, 2 * Unit, 2 * Unit>>

\* C18: ray_color called with remaining depth 0 returns black (0,0,0) for
\* every ray, scene and background colour, and does so without querying
\* the BVH.
C18_DepthZeroNoQuery ==
    (call.kind = "ray_color" /\ call.reflection_depth = 0) =>
        /\ call.result.color = <<0, 0, 0>>
        /\ call.result.queries = 0

\* C18 witness: a call at depth 0 with a ray that the box scene would stop
\* and a background that is not black
C18_Witness ==
    /\ call.kind = "ray_color"
    /\ call.reflection_depth = 0
    /\ call.scene.background_color # <<0, 0, 0>>
    /\ hit(bvh_of(call.scene), call.ray, HitTMin, INFINITY, 1) # None

\* C23: World::bounding_box(t0, t1) returns the union (component-wise min
\* and max) of the bounding boxes of all members, and returns None when any
\* member has no bounding box or when the world is empty.
C23_WorldBoxIsUnion ==
    call.kind = "World::bounding_box" =>
        LET Members == 1..Len(call.objects)
            Box(i) == bounding_box(call.objects[i])
        IN  IF Members = {} \/ \E i \in Members : Box(i) = None
            THEN call.result = None
            ELSE /\ call.result # None
                 /\ \A a \in 1..3 :
                       /\ \A i \in Members : call.result.min[a] <= Box(i).min[a]
                       /\ \E i \in Members : call.result.min[a] = Box(i).min[a]
                       /\ \A i \in Members : call.result.max[a] >= Box(i).max[a]
                       /\ \E i \in Members : call.result.max[a] = Box(i).max[a]

\* C23 witness: a world of three members with boxes whose union is the box
\* of no one member and of no two of them
C23_Witness ==
    /\ call.kind = "World::bounding_box"
    /\ Len(call.objects) = 3
    /\ call.result # None
    /\ \A i \in 1..3 : call.result # bounding_box(call.objects[i])
    /\ \A i, j \in 1..3 :
          i # j => call.result # surrounding_box(bounding_box(call.objects[i]),
                                                 bounding_box(call.objects[j]))

\* C24: for a World used as the light list, pdf_value(origin, v) is the
\* uniform average of its members' pdf_value(origin, v) (and random(origin)
\* the random direction of one member chosen uniformly).  The average of
\* the members is their sum divided by their number.
C24_WorldPdfIsAverage ==
    (call.kind = "World::pdf_value" /\ call.objects # <<>>) =>
        LET RECURSIVE Sum(_)
            Sum(n) ==
                IF n = 0 THEN 0
                ELSE f32_add(Sum(n - 1),
                             pdf_value(call.objects[n], call.origin, call.v))
        IN  call.result = f32_div(Sum(Len(call.objects)),
                                  from_usize(Len(call.objects)))

\* C25: the bounding box of a Rotate (X, Y or Z) wrapper is the
\* component-wise min and max of the 8 rotated corners of the child's box:
\* it contains the rotated position of every corner of the child's box and
\* has min <= max on every axis, and it is None exactly when the child has
\* no box.  The rotated position of a corner is the one of the module's
\* formulas, counterclockwise by the angle about the axis.
C25_RotatedBoxHoldsCorners ==
    call.kind = "Rotate::bounding_box" =>
        LET sin == CASE call.angle = 0 -> 0 [] call.angle = 90 -> 1
                     [] call.angle = 180 -> 0 [] call.angle = 270 -> -1
            cos == CASE call.angle = 0 -> 1 [] call.angle = 90 -> 0
                     [] call.angle = 180 -> -1 [] call.angle = 270 -> 0
            Turn(p) ==
                CASE call.axis = "X" ->
                        <<p[1], p[2] * cos - p[3] * sin, p[2] * sin + p[3] * cos>>
                  [] call.axis = "Y" ->
                        <<p[1] * cos + p[3] * sin, p[2], -p[1] * sin + p[3] * cos>>
                  [] call.axis = "Z" ->
                        <<p[1] * cos - p[2] * sin, p[1] * sin + p[2] * cos, p[3]>>
            Holds(bbox, box) ==
                LET Corners == { Turn(<<x, y, z>>) :
                                    x \in {bbox.min[1], bbox.max[1]},
                                    y \in {bbox.min[2], bbox.max[2]},
                                    z \in {bbox.min[3], bbox.max[3]} }
                IN  \A a \in 1..3 :
                        /\ box.min[a] <= box.max[a]
                        /\ \A p \in Corners : box.min[a] <= p[a] /\ p[a] <= box.max[a]
                        /\ \E p \in Corners : p[a] = box.min[a]
                        /\ \E p \in Corners : p[a] = box.max[a]
            Of(bbox) ==
                /\ call.result = None <=> bbox = None
                /\ bbox # None => Holds(bbox, call.result)
        IN  Of(bounding_box(call.obj))

\* C25 witness: a quarter turn about the x axis of an object whose box is
\* not a cube, which exchanges the extents of the box on y and z
C25_Witness ==
    /\ call.kind = "Rotate::bounding_box"
    /\ call.axis = "X"
    /\ call.angle = 90
    /\ call.result # None
    /\ call.result.max[2] - call.result.min[2]
          # call.result.max[3] - call.result.min[3]
    /\ call.result.max[2] - call.result.min[2]
          = bounding_box(call.obj).max[3] - bounding_box(call.obj).min[3]

\* C26: the bounding box of every axis-aligned rectangle (XYRect, XZRect,
\* YZRect) extends 0.0001 on each side of the plane coordinate k along the
\* rectangle's thin axis, so that its extent on every axis is strictly
\* positive whenever the rectangle's own bounds are strictly ordered (and no
\* rectangle leaf of a BVH has a zero-volume box).
C26_RectBoxHasVolume ==
    call.kind = "Rect::bounding_box" =>
        LET thin == CASE call.rect.kind = "XYRect" -> 3
                      [] call.rect.kind = "XZRect" -> 2
                      [] call.rect.kind = "YZRect" -> 1
        IN  /\ call.result.min[thin] < call.rect.k
            /\ call.result.max[thin] > call.rect.k
            /\ \A a \in 1..3 : call.result.min[a] < call.result.max[a]

\* C29: BVH::new terminates without panicking for every non-empty list
\* whose objects all have finite bounding boxes (every recursive build
\* receives at least 2 and fewer objects than its parent, the split index
\* lies in 0..=n-2 and no index is out of range).
C29_BuildNeverPanics ==
    (call.kind = "BVH::new" /\ call.objects # <<>>) => call.result # Panic

\* C30: the Translate and Rotate wrappers leave the front_face flag of the
\* wrapped hit unchanged: the wrapper reports a hit exactly when the wrapped
\* object does, and with the same front_face, false or true.
C30_WrapperKeepsFrontFace ==
    (call.kind = "Wrapper::hit" /\ call.wrapped # None) =>
        /\ call.result # None
        /\ call.result.front_face = call.wrapped.front_face

====
